---- MODULE Spec2Model ----
(***************************************************************************)
(* Model of the core object model of the Toit VM: tagged values            *)
(* (src/src/objects.h), the Stack object and its transfer to and from the  *)
(* interpreter (src/src/objects.cc, src/src/interpreter.h), and the        *)
(* byte-content extractors (src/src/objects.cc).                           *)
(*                                                                         *)
(* Machine words are modelled as naturals below 2^WORD_BIT_SIZE.  The      *)
(* width is scaled down from the 32/64 bits of a real build so that the    *)
(* set of all words can be enumerated; every operation on words is taken   *)
(* modulo the width.                                                       *)
(***************************************************************************)
EXTENDS Integers, Sequences, FiniteSets, TLC

\* ------------------------------------------------------------------------
\* Words and bit operations
\* ------------------------------------------------------------------------

\* Width of a machine word in the model (scaled down).
WORD_BIT_SIZE == 10

RECURSIVE Pow2(_)
Pow2(n) == IF n = 0 THEN 1 ELSE 2 * Pow2(n - 1)

WordModulus == Pow2(WORD_BIT_SIZE)
Words == 0 .. (WordModulus - 1)

\* uword -> word (two's complement reinterpretation).
SignBit == Pow2(WORD_BIT_SIZE - 1)
ToSigned(w) == IF w >= SignBit THEN w - WordModulus ELSE w
\* word -> uword.
ToWord(n) == n % WordModulus

RECURSIVE BitAnd(_, _)
BitAnd(a, b) ==
  IF a = 0 \/ b = 0 THEN 0
  ELSE (IF a % 2 = 1 /\ b % 2 = 1 THEN 1 ELSE 0) + 2 * BitAnd(a \div 2, b \div 2)

RECURSIVE BitOr(_, _)
BitOr(a, b) ==
  IF a = 0 THEN b
  ELSE IF b = 0 THEN a
  ELSE (IF a % 2 = 1 \/ b % 2 = 1 THEN 1 ELSE 0) + 2 * BitOr(a \div 2, b \div 2)

ShiftLeft(w, n) == (w * Pow2(n)) % WordModulus
ShiftRight(w, n) == w \div Pow2(n)

\* ------------------------------------------------------------------------
\* Object: tags and tag predicates (objects.h, class Object)
\* ------------------------------------------------------------------------

SMI_TAG_SIZE == 1
SMI_TAG_MASK == ShiftLeft(1, SMI_TAG_SIZE) - 1
SMI_TAG == 0
NON_SMI_TAG_SIZE == 2
NON_SMI_TAG_MASK == ShiftLeft(1, NON_SMI_TAG_SIZE) - 1
HEAP_TAG == 1
MARKED_TAG == 3

\* A tag test that uses the two-bit mask where the code uses the one-bit mask.
is_smi_two_bit_mask(w) == BitAnd(w, NON_SMI_TAG_MASK) = SMI_TAG

is_smi(w) == BitAnd(w, SMI_TAG_MASK) = SMI_TAG
is_heap_object(w) == BitAnd(w, NON_SMI_TAG_MASK) = HEAP_TAG
is_marked(w) == BitAnd(w, NON_SMI_TAG_MASK) = MARKED_TAG

\* HeapObject::mark: raw | 0x3.
mark(w) == BitOr(w, 3)

\* An unmark that clears only the smi tag bit before adding the heap tag.
unmark_one_bit(w) ==
  (ShiftLeft(ShiftRight(w, SMI_TAG_SIZE), SMI_TAG_SIZE) + HEAP_TAG) % WordModulus

\* Object::unmark: (address >> 2 << 2) + HEAP_TAG.
unmark(w) ==
  (ShiftLeft(ShiftRight(w, NON_SMI_TAG_SIZE), NON_SMI_TAG_SIZE) + HEAP_TAG) % WordModulus

\* ------------------------------------------------------------------------
\* Smi (objects.h, class Smi)
\* ------------------------------------------------------------------------

\* 1 << SMI_TAG_SIZE
SmiTagFactor == Pow2(SMI_TAG_SIZE)

MIN_SMI_VALUE == -Pow2(WORD_BIT_SIZE - (SMI_TAG_SIZE + 1))
MAX_SMI_VALUE == Pow2(WORD_BIT_SIZE - (SMI_TAG_SIZE + 1)) - 1

\* A range test that leaves only the sign bit out of the word.
Smi_is_valid_one_bit_shy(n) ==
  n >= -Pow2(WORD_BIT_SIZE - 1) /\ n <= Pow2(WORD_BIT_SIZE - 1) - 1

Smi_is_valid(n) == n >= MIN_SMI_VALUE /\ n <= MAX_SMI_VALUE

\* Smi::from: value << SMI_TAG_SIZE, as a word.
Smi_from(n) == ToWord(n * SmiTagFactor)

\* A value() that shifts the word logically, without the sign.
Smi_value_unsigned(w) == w \div SmiTagFactor

\* Smi::value: arithmetic shift right of the signed word.
Smi_value(w) == ToSigned(w) \div SmiTagFactor

\* ------------------------------------------------------------------------
\* Program: bytecode region and frame marker
\* ------------------------------------------------------------------------

\* Bytes in a word: the stride of Object** arithmetic.
WORD_SIZE == 4

\* program->bytecodes.data() and program->bytecodes.length().
bytecodes_data == 192
bytecodes_length == 16
bytecodes_from == bytecodes_data
bytecodes_to == bytecodes_data + bytecodes_length

\* program->frame_marker(): a pointer into the bytecodes.
frame_marker == bytecodes_data + 1

\* The salt added to base-relative block references.
BLOCK_SALT == 100

\* ------------------------------------------------------------------------
\* Stack object layout (objects.h, class Stack)
\* ------------------------------------------------------------------------

HeapObject_SIZE == 0 + WORD_SIZE
Stack_TASK_OFFSET == HeapObject_SIZE
Stack_LENGTH_OFFSET == Stack_TASK_OFFSET + WORD_SIZE
Stack_TOP_OFFSET == Stack_LENGTH_OFFSET + WORD_SIZE
Stack_TRY_TOP_OFFSET == Stack_TOP_OFFSET + WORD_SIZE
Stack_IN_STACK_OVERFLOW_OFFSET == Stack_TRY_TOP_OFFSET + WORD_SIZE
Stack_HEADER_SIZE == Stack_IN_STACK_OVERFLOW_OFFSET + WORD_SIZE

\* Length of a freshly allocated stack (Stack::initial_length(), scaled down).
InitialLength == 5
\* Largest stack the model grows to.
MaxLength == 6

\* The raw addresses at which the model places Stack objects: a stack and the
\* stack it is copied to never share an address.
StackRawAddresses == <<32, 96>>

\* A stack is the record of its header fields and its slots; slot i of the
\* code is slots[i + 1].
\* Stack::_initialize
Stack_initialize(task, length) ==
  [task |-> task, length |-> length, top |-> length, try_top |-> length,
   in_stack_overflow |-> FALSE, slots |-> [i \in 1 .. length |-> 0]]

Stack_array_offset_from(index) == Stack_HEADER_SIZE + index * WORD_SIZE
\* _raw_at(_array_offset_from(index)) for the stack at raw address raw.
Stack_array_address(raw, index) == raw + Stack_array_offset_from(index)

Stack_stack_base_addr(raw, s) == Stack_array_address(raw, s.length)
Stack_stack_limit_addr(raw, s) == Stack_array_address(raw, 0)
Stack_stack_sp_addr(raw, s) == Stack_array_address(raw, s.top)
Stack_stack_try_sp_addr(raw, s) == Stack_array_address(raw, s.try_top)

\* Object** subtraction: the number of slots between two slot addresses.
PtrDiff(a, b) == (a - b) \div WORD_SIZE

\* A block decode that forgets to remove the salt.
Stack_from_block_no_salt(raw, s, block) ==
  Stack_stack_base_addr(raw, s) - Smi_value(block) * WORD_SIZE

\* Stack::_from_block
Stack_from_block(raw, s, block) ==
  Stack_stack_base_addr(raw, s) - (Smi_value(block) - BLOCK_SALT) * WORD_SIZE

\* Stack::_to_block
Stack_to_block(raw, s, pointer) ==
  Smi_from(PtrDiff(Stack_stack_base_addr(raw, s), pointer) + BLOCK_SALT)

\* ------------------------------------------------------------------------
\* Interpreter registers and stack accessors (interpreter.h)
\* ------------------------------------------------------------------------

\* Interpreter::_from_block
Interpreter_from_block(in, block) ==
  in.base - (Smi_value(block) - BLOCK_SALT) * WORD_SIZE

\* Interpreter::_to_block
Interpreter_to_block(in, pointer) ==
  Smi_from(PtrDiff(in.base, pointer) + BLOCK_SALT)

\* Interpreter::_length
Interpreter_length(in) == PtrDiff(in.base, in.sp)

\* ------------------------------------------------------------------------
\* State
\* ------------------------------------------------------------------------

VARIABLES
  val,      \* a value (tagged word) under test
  val_in,   \* the operand of the last mark / unmark
  val_op,   \* the last operation applied to val: "none", "mark", "unmark"
  stack,    \* the task's Stack object (header fields and slots)
  stack_at, \* index into StackRawAddresses of the Stack object
  interp,   \* the interpreter's registers _limit, _base, _sp, _try_sp, flag
  held,     \* TRUE while the interpreter holds the stack (load .. store)
  fatal,    \* TRUE once an ASSERT has failed
  last_op,  \* the last stack operation ("run": a step of the interpreter)
  pre,      \* the stack and its address before the last transfer or copy
  visited,  \* the slot indices roots_do called back on, in call order
  cow,      \* the copy-on-write byte array instance: slots 0 and 1
  slice,    \* the slice instance: class id and slots 0, 1 and 2
  nested,   \* a second slice instance, for a slice over a slice
  allocated,\* the byte arrays allocated by the process, in allocation order
  out,      \* the caller's content, length and error variables
  ret,      \* the value the last extractor call returned
  call,     \* the last extractor call: function, receiver, allocations made
  pre_out,  \* content and length before the last call
  this_string,  \* a String: its bytes and its hash code field
  other_object, \* the argument of equals and compare
  str_call,     \* the last string operation and what it was given
  str_ret,      \* the value the last string operation returned
  ext_array,      \* an external ByteArray: raw length, address and tag
  ext_registered, \* the external memory registered with the process
  ext_log,        \* the operations made on ext_array, with their results
  ext_initial,    \* address, length and registered memory at the start
  frames,         \* the do_frame callbacks of the last frames_do and its result
  access,         \* the last stack accessor call and the slots it read or wrote
  entry_code,     \* the operands and the position of the entry code that compares them
  operand_stack,  \* the words the entry code has pushed, top first
  run_result,     \* the Result run() returned, or NoResult while it runs
  snap_object,    \* the object whose content is written to the snapshot
  snap_stream,    \* the stream write_content produced, as a sequence of tokens
  snap_copy,      \* the object read_content filled in from the stream
  snap_pc,        \* "write", "read", "done", or "fatal" after FATAL
  root_holder,    \* the heap object HeapObject::roots_do is called on
  root_calls,     \* the byte offsets in the object the callback was called with, in call order
  root_pc,        \* "walk" before the call of roots_do, "done" after it
  gc_pc,          \* "mutator" while bytecodes run or the task is suspended, "stored" inside scavenge()
  gc_walk,        \* the last walk or copy of the collector: its name and the top of the Stack it ran on
  watermark,      \* the address the stack pointer is checked against before a push
  overflow_state, \* the OverflowState of the last stack overflow check, or "none"
  overflows       \* the number of stack overflow exceptions thrown so far

value_vars == <<val, val_in, val_op>>
stack_vars == <<stack, stack_at, interp, held, fatal, last_op, pre, visited>>
bytes_vars == <<cow, slice, nested, allocated, out, ret, call, pre_out>>
string_vars == <<this_string, other_object, str_call, str_ret>>
ext_vars == <<ext_array, ext_registered, ext_log, ext_initial>>
frame_vars == <<frames>>
access_vars == <<access>>
compare_vars == <<entry_code, operand_stack, run_result>>
snapshot_vars == <<snap_object, snap_stream, snap_copy, snap_pc>>
roots_vars == <<root_holder, root_calls, root_pc>>
gc_vars == <<gc_pc, gc_walk>>
overflow_vars == <<watermark, overflow_state, overflows>>
other_vars == <<string_vars, ext_vars, frame_vars, access_vars, compare_vars, snapshot_vars, roots_vars, gc_vars, overflow_vars>>
vars == <<value_vars, stack_vars, bytes_vars, other_vars>>

\* The stack part of the state when no stack operation is under study.
NoSnapshot == [stack |-> <<>>, raw |-> 0, arg |-> 0]
NullRegisters ==
  [limit |-> 0, base |-> 0, sp |-> 0, try_sp |-> 0, in_stack_overflow |-> FALSE]

\* The byte-content part of the state when no extractor is under study.
NoCall ==
  [fn |-> "none", this |-> 0, kind |-> "none", alloc_failed |-> FALSE, allocations |-> 0]
NoStringCall == [fn |-> "none", arg |-> <<>>, raw_before |-> 0, same |-> FALSE]
IdleStrings ==
  /\ this_string = <<>>
  /\ other_object = <<>>
  /\ str_call = NoStringCall
  /\ str_ret = 0

\* Every part of the state outside values, stacks and byte content, when
\* it is not under study.
IdleExternal ==
  /\ ext_array = <<>>
  /\ ext_registered = 0
  /\ ext_log = <<>>
  /\ ext_initial = <<>>

\* No frame walk has been made.
NoFrames == [called |-> FALSE, calls |-> <<>>, result |-> 0, assert_ok |-> TRUE]
IdleFrames == frames = NoFrames

\* No stack accessor has been called.
NoAccess == [fn |-> "none", touched |-> {}]
IdleAccess == access = NoAccess

\* No process has been activated.
NoResult == [state |-> "none", value |-> 0]
NoEntryCode == [lhs |-> 0, rhs |-> 0, pc |-> "none"]
IdleCompare ==
  /\ entry_code = NoEntryCode
  /\ operand_stack = <<>>
  /\ run_result = NoResult

\* No snapshot is being written or read.
NoObject == [tag |-> "none"]
IdleSnapshot ==
  /\ snap_object = NoObject
  /\ snap_stream = <<>>
  /\ snap_copy = NoObject
  /\ snap_pc = "none"

\* No object is being walked.
IdleRoots ==
  /\ root_holder = NoObject
  /\ root_calls = <<>>
  /\ root_pc = "none"

\* No collector has walked a stack.
NoWalk == [op |-> "none", top |-> 0]
IdleGc ==
  /\ gc_pc = "none"
  /\ gc_walk = NoWalk

\* No stack overflow check has run.
IdleOverflow ==
  /\ watermark = 0
  /\ overflow_state = "none"
  /\ overflows = 0

IdleOthers == IdleStrings /\ IdleExternal /\ IdleFrames /\ IdleAccess /\ IdleCompare /\ IdleSnapshot /\ IdleRoots /\ IdleGc /\ IdleOverflow

IdleBytes ==
  /\ cow = <<>>
  /\ slice = <<>>
  /\ nested = <<>>
  /\ allocated = <<>>
  /\ out = <<>>
  /\ ret = FALSE
  /\ call = NoCall
  /\ pre_out = <<>>

InitValue ==
  /\ IdleBytes
  /\ IdleOthers
  /\ val \in Words
  /\ val_in = val
  /\ val_op = "none"
  /\ stack = <<>>
  /\ stack_at = 1
  /\ interp = NullRegisters
  /\ held = FALSE
  /\ fatal = FALSE
  /\ last_op = "none"
  /\ pre = NoSnapshot
  /\ visited = <<>>

\* h->mark() on a HeapObject* h (HeapObject::cast asserts is_heap_object;
\* mark asserts !is_marked before and is_marked after).
Mark ==
  /\ is_heap_object(val)
  /\ ~is_marked(val)
  /\ is_marked(mark(val))
  /\ val' = mark(val)
  /\ val_in' = val
  /\ val_op' = "mark"
  /\ UNCHANGED <<stack_vars, bytes_vars, other_vars>>

\* o->unmark() (asserts is_marked before and !is_marked after).
Unmark ==
  /\ is_marked(val)
  /\ ~is_marked(unmark(val))
  /\ val' = unmark(val)
  /\ val_in' = val
  /\ val_op' = "unmark"
  /\ UNCHANGED <<stack_vars, bytes_vars, other_vars>>

NextValue == Mark \/ Unmark

SpecValue == InitValue /\ [][NextValue]_vars

\* The integers handed to Smi::from and to LargeInteger::_set_value: every
\* value of a signed word and as many again on either side (an int64 is
\* wider than a word).
IntInputs == (-Pow2(WORD_BIT_SIZE)) .. (Pow2(WORD_BIT_SIZE) - 1)
FitsWord(n) == n >= -SignBit /\ n <= SignBit - 1

InitSmi ==
  /\ IdleBytes
  /\ IdleOthers
  /\ val = 0
  /\ val_in \in IntInputs
  /\ val_op = "none"
  /\ stack = <<>>
  /\ stack_at = 1
  /\ interp = NullRegisters
  /\ held = FALSE
  /\ fatal = FALSE
  /\ last_op = "none"
  /\ pre = NoSnapshot
  /\ visited = <<>>

\* Smi::from(word value): ASSERT(is_valid(value)), then the tagging shift.
\* A failed assertion stops the call before the shift.
SmiFrom ==
  /\ val_op = "none"
  /\ FitsWord(val_in)
  /\ IF Smi_is_valid(val_in)
     THEN val' = Smi_from(val_in) /\ val_op' = "from"
     ELSE val' = val /\ val_op' = "from_assert_failed"
  /\ UNCHANGED <<val_in, stack_vars, bytes_vars, other_vars>>

\* LargeInteger::_set_value(int64 value): ASSERT(!Smi::is_valid(value)),
\* then the payload is stored.  val stays 0: the payload is val_in.
LargeIntegerSetValue ==
  /\ val_op = "none"
  /\ IF ~Smi_is_valid(val_in)
     THEN val_op' = "large_integer"
     ELSE val_op' = "large_integer_assert_failed"
  /\ UNCHANGED <<val, val_in, stack_vars, bytes_vars, other_vars>>

NextSmi == SmiFrom \/ LargeIntegerSetValue

SpecSmi == InitSmi /\ [][NextSmi]_vars

\* ------------------------------------------------------------------------
\* Stack operations (objects.cc) as functions of the stack record
\* ------------------------------------------------------------------------

\* The registers Stack::transfer_to_interpreter stores into the interpreter.
transfer_to_interpreter_registers(raw, s) ==
  [limit |-> Stack_stack_limit_addr(raw, s),
   base |-> Stack_stack_base_addr(raw, s),
   sp |-> Stack_stack_sp_addr(raw, s),
   try_sp |-> Stack_stack_try_sp_addr(raw, s),
   in_stack_overflow |-> s.in_stack_overflow]

\* A transfer that leaves the stack's top in place.
transfer_to_interpreter_keeps_top(s) == s

\* The stack after Stack::transfer_to_interpreter: _set_top(-1).
transfer_to_interpreter_stack(s) == [s EXCEPT !.top = -1]

\* A transfer back that measures try_top from the stack pointer instead of
\* from the limit.
transfer_from_interpreter_try_from_sp(raw, s, in) ==
  [s EXCEPT !.top = PtrDiff(in.sp, Stack_stack_limit_addr(raw, s)),
            !.try_top = PtrDiff(in.try_sp, in.sp),
            !.in_stack_overflow = in.in_stack_overflow]

\* A transfer back that does not store the overflow flag.
transfer_from_interpreter_drops_flag(raw, s, in) ==
  [s EXCEPT !.top = PtrDiff(in.sp, Stack_stack_limit_addr(raw, s)),
            !.try_top = PtrDiff(in.try_sp, Stack_stack_limit_addr(raw, s))]

\* A transfer back that stores the number of used slots as the top.
transfer_from_interpreter_top_from_base(raw, s, in) ==
  [s EXCEPT !.top = PtrDiff(in.base, in.sp),
            !.try_top = PtrDiff(in.try_sp, Stack_stack_limit_addr(raw, s)),
            !.in_stack_overflow = in.in_stack_overflow]

\* The stack after the assignments of Stack::transfer_from_interpreter.
transfer_from_interpreter(raw, s, in) ==
  [s EXCEPT !.top = PtrDiff(in.sp, Stack_stack_limit_addr(raw, s)),
            !.try_top = PtrDiff(in.try_sp, Stack_stack_limit_addr(raw, s)),
            !.in_stack_overflow = in.in_stack_overflow]

\* A copy that places the used slots at the source's top, without the
\* displacement.
copy_to_no_displacement(s, other_length) ==
  LET used == s.length - s.top
      displacement == other_length - s.length
  IN [task |-> s.task,
      length |-> other_length,
      top |-> displacement + s.top,
      try_top |-> displacement + s.try_top,
      in_stack_overflow |-> s.in_stack_overflow,
      slots |-> [j \in 1 .. other_length |->
                  IF j - 1 >= s.top /\ j - 1 < s.top + used
                  THEN s.slots[j] ELSE 0]]

\* Stack::copy_to: the destination stack after the copy.  The destination is
\* freshly allocated (zero filled); memcpy moves the used slots to
\* top + displacement.
copy_to(s, other_length) ==
  LET used == s.length - s.top
      displacement == other_length - s.length
  IN [task |-> s.task,
      length |-> other_length,
      top |-> displacement + s.top,
      try_top |-> displacement + s.try_top,
      in_stack_overflow |-> s.in_stack_overflow,
      slots |-> [j \in 1 .. other_length |->
                  IF j - 1 >= s.top + displacement
                  THEN s.slots[j - displacement] ELSE 0]]

InBytecodes(w) == bytecodes_from <= w /\ w < bytecodes_to

\* The loop of Stack::roots_do from iteration i on: the slot indices the
\* callback is called with, in call order.
RECURSIVE roots_do_from(_, _)
roots_do_from(s, i) ==
  IF i >= s.length - s.top THEN <<>>
  ELSE LET root_object == s.slots[s.top + i + 1]
       IN IF InBytecodes(root_object)
          THEN roots_do_from(s, i + 1)
          ELSE <<s.top + i>> \o roots_do_from(s, i + 1)

\* A root walk that only skips the frame marker itself.
roots_do_skips_marker_only(s) ==
  LET used == s.length - s.top
      all == [i \in 1 .. used |-> s.top + i - 1]
  IN SelectSeq(all, LAMBDA k : s.slots[k + 1] # frame_marker)

\* Stack::roots_do
roots_do(s) == roots_do_from(s, 0)

\* Stack::at: the word index slots above the stack pointer.
Stack_at(s, index) == s.slots[s.top + index + 1]

\* program->absolute_bci_from_bcp: the return bytecode pointer minus the
\* program's bytecode base.
absolute_bci_from_bcp(bcp) == bcp - bytecodes_data

\* The loop of Stack::frames_do from iteration index on.  last_return_bcp is
\* 0 for null.  calls are the do_frame callbacks <<frame number, absolute
\* bci>> in call order, result is the frame_no returned, assert_ok turns
\* FALSE when ASSERT(frame_no == 0) fails.
RECURSIVE frames_do_from(_, _, _, _, _, _, _)
frames_do_from(s, index, frame_no, last_return_bcp, is_first_frame, calls, assert_ok) ==
  LET stack_length == s.length - s.top
  IN IF index >= stack_length - 1
     THEN [called |-> TRUE, calls |-> calls, result |-> frame_no,
           assert_ok |-> assert_ok]
     ELSE LET probe == Stack_at(s, index)
              return_bcp_word == Stack_at(s, index + 1)
          IN IF probe # frame_marker
             THEN frames_do_from(s, index + 1, frame_no, last_return_bcp,
                                 is_first_frame, calls, assert_ok)
             ELSE IF last_return_bcp = 0
             THEN frames_do_from(s, index + 1, frame_no, return_bcp_word,
                                 is_first_frame, calls,
                                 assert_ok /\ frame_no = 0)
             ELSE IF is_first_frame
             THEN frames_do_from(s, index + 1, frame_no, return_bcp_word,
                                 FALSE, calls, assert_ok)
             ELSE frames_do_from(s, index + 1, frame_no + 1, return_bcp_word,
                                 FALSE,
                                 Append(calls, <<frame_no,
                                   absolute_bci_from_bcp(last_return_bcp)>>),
                                 assert_ok)

\* A frame walk that reports each frame with the bci of the frame marker
\* instead of the return address.
frames_do_reports_marker_bci(s) ==
  LET r == frames_do_from(s, 0, 0, 0, TRUE, <<>>, TRUE)
  IN [r EXCEPT !.calls =
        [k \in 1 .. Len(r.calls) |->
           <<r.calls[k][1], absolute_bci_from_bcp(frame_marker)>>]]

\* A frame walk that reports the frame of the throw site as well.
frames_do_reports_throw_frame(s) == frames_do_from(s, 0, 0, 0, FALSE, <<>>, TRUE)

\* Stack::frames_do
frames_do(s) == frames_do_from(s, 0, 0, 0, TRUE, <<>>, TRUE)

\* ------------------------------------------------------------------------
\* Stack and interpreter actions
\* ------------------------------------------------------------------------

StackRaw == StackRawAddresses[stack_at]

\* The task owning the stack: a heap pointer.
TaskPointer == 17
\* A return address: a pointer into the bytecodes (as a word it is also the
\* smi 98).
return_bcp == bytecodes_data + 4
\* The words a bytecode may push.
PushValues == {TaskPointer}

\* The index of the stack slot at address a.
SlotIndex(a) == PtrDiff(a, Stack_array_address(StackRaw, 0))

InitStack ==
  /\ IdleBytes
  /\ IdleOthers
  /\ val = 0
  /\ val_in = 0
  /\ val_op = "none"
  /\ stack = Stack_initialize(TaskPointer, InitialLength)
  /\ stack_at = 1
  /\ interp = NullRegisters
  /\ held = FALSE
  /\ fatal = FALSE
  /\ last_op = "none"
  /\ pre = NoSnapshot
  /\ visited = <<>>

\* Stack::transfer_to_interpreter (Interpreter::load_stack).
TransferToInterpreter ==
  /\ ~fatal
  /\ last_op' = "transfer_to"
  /\ pre' = [stack |-> stack, raw |-> StackRaw, arg |-> 0]
  /\ visited' = <<>>
  /\ IF stack.top > 0 /\ stack.top <= stack.length
     THEN /\ interp' = transfer_to_interpreter_registers(StackRaw, stack)
          /\ stack' = transfer_to_interpreter_stack(stack)
          /\ held' = TRUE
          /\ UNCHANGED fatal
     ELSE /\ fatal' = TRUE
          /\ UNCHANGED <<interp, stack, held>>
  /\ UNCHANGED <<stack_at, value_vars, bytes_vars, other_vars>>

\* Stack::transfer_from_interpreter (Interpreter::store_stack).
TransferFromInterpreter ==
  /\ ~fatal
  /\ last_op' = "transfer_from"
  /\ pre' = NoSnapshot
  /\ visited' = <<>>
  /\ IF stack.top = -1
     THEN LET s2 == transfer_from_interpreter(StackRaw, stack, interp)
          IN /\ stack' = s2
             /\ held' = FALSE
             /\ fatal' = ~(s2.top > 0 /\ s2.top <= s2.length)
     ELSE /\ fatal' = TRUE
          /\ UNCHANGED <<stack, held>>
  /\ UNCHANGED <<interp, stack_at, value_vars, bytes_vars, other_vars>>

\* Interpreter::_push
Push(x) ==
  /\ held /\ ~fatal
  /\ interp.sp > interp.limit
  /\ interp' = [interp EXCEPT !.sp = interp.sp - WORD_SIZE]
  /\ stack' = [stack EXCEPT !.slots[SlotIndex(interp.sp - WORD_SIZE) + 1] = x]
  /\ pre' = NoSnapshot
  /\ visited' = <<>>
  /\ UNCHANGED <<stack_at, held, fatal, value_vars, bytes_vars, other_vars>>

PushValue ==
  /\ \E x \in PushValues : Push(x)
  /\ last_op' = "run"

\* A bytecode that pushes a reference to the block at the current top of
\* stack: _push(_to_block(_sp)).
PushBlock ==
  /\ Smi_is_valid(PtrDiff(interp.base, interp.sp) + BLOCK_SALT)
  /\ Push(Interpreter_to_block(interp, interp.sp))
  /\ last_op' = "run"

\* Interpreter::_pop.  Compiled code never pops the link of the active try
\* frame, so the stack pointer stays at or below _try_sp.
Pop ==
  /\ held /\ ~fatal
  /\ interp.sp < interp.base
  /\ interp.sp < interp.try_sp
  /\ interp' = [interp EXCEPT !.sp = interp.sp + WORD_SIZE]
  /\ last_op' = "run"
  /\ pre' = NoSnapshot
  /\ visited' = <<>>
  /\ UNCHANGED <<stack, stack_at, held, fatal, value_vars, bytes_vars, other_vars>>

\* Interpreter::_drop
Drop ==
  /\ held /\ ~fatal
  /\ \E n \in 2 .. 3 :
       /\ n <= Interpreter_length(interp)
       /\ interp.sp + n * WORD_SIZE <= interp.try_sp
       /\ interp' = [interp EXCEPT !.sp = interp.sp + n * WORD_SIZE]
  /\ last_op' = "run"
  /\ pre' = NoSnapshot
  /\ visited' = <<>>
  /\ UNCHANGED <<stack, stack_at, held, fatal, value_vars, bytes_vars, other_vars>>

\* Interpreter::_at_put on a slot of the current activation.
AtPut ==
  /\ held /\ ~fatal
  /\ \E index \in 0 .. 1, x \in PushValues :
       /\ interp.sp + index * WORD_SIZE < interp.base
       /\ interp.sp + index * WORD_SIZE < interp.try_sp
       /\ stack' = [stack EXCEPT
                      !.slots[SlotIndex(interp.sp + index * WORD_SIZE) + 1] = x]
  /\ last_op' = "run"
  /\ pre' = NoSnapshot
  /\ visited' = <<>>
  /\ UNCHANGED <<interp, stack_at, held, fatal, value_vars, bytes_vars, other_vars>>

\* The LINK bytecode: pushes a try frame (result, target and reason slots
\* above the link base, which holds the block reference of the enclosing
\* try frame) and makes it the active one.
Link ==
  /\ held /\ ~fatal
  /\ PtrDiff(interp.sp, interp.limit) >= 4
  /\ LET sp0 == interp.sp
         i0 == SlotIndex(sp0)
     IN /\ stack' = [stack EXCEPT
                       !.slots[i0] = return_bcp,
                       !.slots[i0 - 1] = Smi_from(0),
                       !.slots[i0 - 2] = Smi_from(0),
                       !.slots[i0 - 3] = Interpreter_to_block(interp, interp.try_sp)]
        /\ interp' = [interp EXCEPT !.sp = sp0 - 4 * WORD_SIZE,
                                    !.try_sp = sp0 - 4 * WORD_SIZE]
  /\ last_op' = "run"
  /\ pre' = NoSnapshot
  /\ visited' = <<>>
  /\ UNCHANGED <<stack_at, held, fatal, value_vars, bytes_vars, other_vars>>

\* The UNLINK bytecode: _try_sp = _from_block(_pop()) with the link base on
\* top of the stack.
Unlink ==
  /\ held /\ ~fatal
  /\ interp.sp = interp.try_sp
  /\ interp.sp < interp.base
  /\ interp' = [interp EXCEPT
                  !.sp = interp.sp + WORD_SIZE,
                  !.try_sp = Interpreter_from_block(
                               interp, stack.slots[SlotIndex(interp.sp) + 1])]
  /\ last_op' = "run"
  /\ pre' = NoSnapshot
  /\ visited' = <<>>
  /\ UNCHANGED <<stack, stack_at, held, fatal, value_vars, bytes_vars, other_vars>>

\* handle_stack_overflow entering OVERFLOW_EXCEPTION: the flag is set.
EnterStackOverflow ==
  /\ held /\ ~fatal
  /\ ~interp.in_stack_overflow
  /\ interp' = [interp EXCEPT !.in_stack_overflow = TRUE]
  /\ last_op' = "run"
  /\ pre' = NoSnapshot
  /\ visited' = <<>>
  /\ UNCHANGED <<stack, stack_at, held, fatal, value_vars, bytes_vars, other_vars>>

\* Interpreter::reset_stack_limit: the flag is cleared.
ResetStackLimit ==
  /\ held /\ ~fatal
  /\ interp.in_stack_overflow
  /\ interp' = [interp EXCEPT !.in_stack_overflow = FALSE]
  /\ last_op' = "run"
  /\ pre' = NoSnapshot
  /\ visited' = <<>>
  /\ UNCHANGED <<stack, stack_at, held, fatal, value_vars, bytes_vars, other_vars>>

\* Stack::copy_to into a freshly allocated stack of other_length slots, which
\* becomes the task's stack.  The stack is copied while it is stored in the
\* Stack object.
CopyTo ==
  /\ ~held /\ ~fatal
  /\ \E other_length \in 1 .. MaxLength :
       /\ other_length >= stack.length - stack.top
       /\ stack' = copy_to(stack, other_length)
       /\ pre' = [stack |-> stack, raw |-> StackRaw, arg |-> other_length]
  /\ stack_at' = 3 - stack_at
  /\ last_op' = "copy_to"
  /\ visited' = <<>>
  /\ UNCHANGED <<interp, held, fatal, value_vars, bytes_vars, other_vars>>

\* Stack::roots_do during a scavenge, with a callback that records the slot.
RootsDo ==
  /\ ~held /\ ~fatal
  /\ visited' = roots_do(stack)
  /\ last_op' = "roots_do"
  /\ pre' = NoSnapshot
  /\ UNCHANGED <<stack, stack_at, interp, held, fatal, value_vars, bytes_vars, other_vars>>

NextStack ==
  \/ TransferToInterpreter
  \/ TransferFromInterpreter
  \/ PushValue
  \/ PushBlock
  \/ Pop
  \/ Drop
  \/ AtPut
  \/ Link
  \/ Unlink
  \/ EnterStackOverflow
  \/ ResetStackLimit

SpecStack == InitStack /\ [][NextStack]_vars

\* The stack accessors of the interpreter called directly, with any int
\* argument: the only guard of a call is its own ASSERT.  touched are the
\* slot indexes the call read or wrote (slot i is at _limit + i); a write
\* outside the stack's slots lands in memory the Stack record does not
\* hold.  The stack pointer is followed down to AccessorSlack slots below
\* the limit.
AccessorSlack == 2
AccessorArgs == (-AccessorSlack) .. (InitialLength + 1)

InStack(i) == i >= 0 /\ i < stack.length

WriteSlot(i, x) ==
  IF InStack(i) THEN stack' = [stack EXCEPT !.slots[i + 1] = x]
  ELSE UNCHANGED stack

InitAccessors ==
  /\ IdleBytes
  /\ IdleOthers
  /\ val = 0
  /\ val_in = 0
  /\ val_op = "none"
  /\ stack = transfer_to_interpreter_stack(Stack_initialize(TaskPointer, InitialLength))
  /\ stack_at = 1
  /\ interp = transfer_to_interpreter_registers(
                StackRawAddresses[1], Stack_initialize(TaskPointer, InitialLength))
  /\ held = TRUE
  /\ fatal = FALSE
  /\ last_op = "none"
  /\ pre = NoSnapshot
  /\ visited = <<>>

\* Interpreter::_push: ASSERT(_sp > _limit); *(--_sp) = object.
RawPush ==
  /\ interp.sp > interp.limit
  /\ \E x \in PushValues :
       WriteSlot(PtrDiff(interp.sp - WORD_SIZE, interp.limit), x)
  /\ interp' = [interp EXCEPT !.sp = interp.sp - WORD_SIZE]
  /\ access' = [fn |-> "_push",
                touched |-> {PtrDiff(interp.sp - WORD_SIZE, interp.limit)}]
  /\ UNCHANGED <<stack_at, held, fatal, last_op, pre, visited>>
  /\ UNCHANGED <<value_vars, bytes_vars, string_vars, ext_vars, frame_vars, compare_vars, snapshot_vars, roots_vars, gc_vars, overflow_vars>>

\* Interpreter::_pop: ASSERT(_sp < _base); return *(_sp++).
RawPop ==
  /\ interp.sp < interp.base
  /\ interp' = [interp EXCEPT !.sp = interp.sp + WORD_SIZE]
  /\ access' = [fn |-> "_pop", touched |-> {PtrDiff(interp.sp, interp.limit)}]
  /\ UNCHANGED <<stack, stack_at, held, fatal, last_op, pre, visited>>
  /\ UNCHANGED <<value_vars, bytes_vars, string_vars, ext_vars, frame_vars, compare_vars, snapshot_vars, roots_vars, gc_vars, overflow_vars>>

\* Interpreter::_drop(int n): ASSERT(n <= _length()); _sp += n.
RawDrop ==
  /\ \E n \in AccessorArgs :
       /\ n <= Interpreter_length(interp)
       /\ interp.sp + n * WORD_SIZE >= interp.limit - AccessorSlack * WORD_SIZE
       /\ interp' = [interp EXCEPT !.sp = interp.sp + n * WORD_SIZE]
  /\ access' = [fn |-> "_drop", touched |-> {}]
  /\ UNCHANGED <<stack, stack_at, held, fatal, last_op, pre, visited>>
  /\ UNCHANGED <<value_vars, bytes_vars, string_vars, ext_vars, frame_vars, compare_vars, snapshot_vars, roots_vars, gc_vars, overflow_vars>>

\* Interpreter::_at(int index): ASSERT((_sp + index) < _base); return *(_sp + index).
RawAt ==
  /\ \E index \in AccessorArgs :
       /\ interp.sp + index * WORD_SIZE < interp.base
       /\ access' = [fn |-> "_at",
                     touched |-> {PtrDiff(interp.sp, interp.limit) + index}]
  /\ UNCHANGED <<stack, stack_at, interp, held, fatal, last_op, pre, visited>>
  /\ UNCHANGED <<value_vars, bytes_vars, string_vars, ext_vars, frame_vars, compare_vars, snapshot_vars, roots_vars, gc_vars, overflow_vars>>

\* Interpreter::_at_put(int index, Object* value):
\* ASSERT((_sp + index) < _base); return *(_sp + index) = value.
RawAtPut ==
  /\ \E index \in AccessorArgs, x \in PushValues :
       /\ interp.sp + index * WORD_SIZE < interp.base
       /\ WriteSlot(PtrDiff(interp.sp, interp.limit) + index, x)
       /\ access' = [fn |-> "_at_put",
                     touched |-> {PtrDiff(interp.sp, interp.limit) + index}]
  /\ UNCHANGED <<stack_at, interp, held, fatal, last_op, pre, visited>>
  /\ UNCHANGED <<value_vars, bytes_vars, string_vars, ext_vars, frame_vars, compare_vars, snapshot_vars, roots_vars, gc_vars, overflow_vars>>

NextAccessors ==
  \/ RawPush
  \/ RawPop
  \/ RawDrop
  \/ RawAt
  \/ RawAtPut

SpecAccessors == InitAccessors /\ [][NextAccessors]_vars

\* Stored stacks as an interpreter run leaves them: any top, any try_top at
\* or above it, either flag, and in the used slots any of the words a run
\* puts on a stack (the unused slots are those of a fresh stack).
StackWords == {TaskPointer, frame_marker, return_bcp, Smi_from(BLOCK_SALT + 1)}

StoredStacks ==
  {[task |-> TaskPointer, length |-> InitialLength, top |-> t, try_top |-> tt,
    in_stack_overflow |-> f,
    slots |-> [j \in 1 .. InitialLength |-> IF j - 1 >= t THEN u[j] ELSE 0]] :
      t \in 1 .. InitialLength, tt \in 1 .. InitialLength, f \in BOOLEAN,
      u \in [1 .. InitialLength -> StackWords]}

InitCopy ==
  /\ IdleBytes
  /\ IdleOthers
  /\ val = 0
  /\ val_in = 0
  /\ val_op = "none"
  /\ stack \in {s \in StoredStacks : s.try_top >= s.top}
  /\ stack_at = 1
  /\ interp = NullRegisters
  /\ held = FALSE
  /\ fatal = FALSE
  /\ last_op = "none"
  /\ pre = NoSnapshot
  /\ visited = <<>>

NextCopy ==
  \/ CopyTo
  \/ RootsDo

SpecCopy == InitCopy /\ [][NextCopy]_vars

\* Stack::frames_do on a stored stack, with a callback that records the
\* frame number and the absolute bci it is given.
FramesDo ==
  /\ ~held /\ ~fatal
  /\ frames' = frames_do(stack)
  /\ last_op' = "frames_do"
  /\ UNCHANGED <<stack, stack_at, interp, held, fatal, pre, visited>>
  /\ UNCHANGED <<value_vars, bytes_vars, string_vars, ext_vars, access_vars, compare_vars, snapshot_vars, roots_vars, gc_vars, overflow_vars>>

\* Frame walks and root walks of the same stored stack.
NextFrames ==
  \/ FramesDo
  \/ RootsDo

\* Hand-built stacks for the frame walk: long enough for three frame
\* markers that each have a return address of their own, any top, and in
\* the used slots a frame marker, a return address or a heap pointer.
FrameStackLength == 7
FrameWords == {frame_marker, return_bcp, TaskPointer}

HandBuiltStacks ==
  {[task |-> TaskPointer, length |-> FrameStackLength, top |-> t,
    try_top |-> FrameStackLength, in_stack_overflow |-> FALSE,
    slots |-> [j \in 1 .. FrameStackLength |-> IF j - 1 >= t THEN u[j] ELSE 0]] :
      t \in 1 .. FrameStackLength, u \in [1 .. FrameStackLength -> FrameWords]}

InitFrames ==
  /\ IdleBytes
  /\ IdleOthers
  /\ val = 0
  /\ val_in = 0
  /\ val_op = "none"
  /\ stack \in HandBuiltStacks
  /\ stack_at = 1
  /\ interp = NullRegisters
  /\ held = FALSE
  /\ fatal = FALSE
  /\ last_op = "none"
  /\ pre = NoSnapshot
  /\ visited = <<>>

SpecFrames == InitFrames /\ [][NextFrames]_vars

\* ------------------------------------------------------------------------
\* Byte content: strings, byte arrays, copy-on-write byte arrays and slices
\* ------------------------------------------------------------------------

\* The heap objects of the byte-content study, as tagged pointers.
true_object == 9
false_object == 13
TheString == 21      \* a String
InternalBytes == 25  \* a ByteArray with inline content
ExternalBytes == 29  \* an external ByteArray tagged RawByteTag
StructBytes == 33    \* an external ByteArray holding a struct
LargeInteger == 37   \* a LargeInteger: a number that is not a smi
AnArray == 41        \* an Array: a heap object without byte content
CowInstance == 45    \* the instance of the copy-on-write byte array class
SliceInstance == 49  \* the instance of a slice class
InnerSlice == 5      \* a second instance of a slice class
FirstAllocation == 53 \* where allocate_byte_array places its first array

\* The most byte arrays a process allocates in one behaviour.
MaxAllocs == 2

\* Program::byte_array_cow_class_id and the two slice class ids.
byte_array_cow_class_id == 1
byte_array_slice_class_id == 2
string_slice_class_id == 3

BlobKind == {"STRINGS_OR_BYTE_ARRAYS", "STRINGS_ONLY"}

\* The caller's pointer and error when nothing has been stored in them.
NullContent == [obj |-> 0, off |-> 0]
NoError == "null"

\* The pointer of the i-th allocated byte array, and the inverse.
AllocationAt(i) == FirstAllocation + NON_SMI_TAG_MASK * (i - 1) + (i - 1)
AllocationIndex(p) == (p - FirstAllocation) \div (NON_SMI_TAG_MASK + 1) + 1
IsAllocation(arrays, p) ==
  /\ p >= FirstAllocation
  /\ (p - FirstAllocation) % (NON_SMI_TAG_MASK + 1) = 0
  /\ AllocationIndex(p) <= Len(arrays)

\* HeapObject::class_tag.
class_tag(arrays, p) ==
  IF p = TheString THEN "STRING_TAG"
  ELSE IF p \in {InternalBytes, ExternalBytes, StructBytes} \/ IsAllocation(arrays, p)
    THEN "BYTE_ARRAY_TAG"
  ELSE IF p = LargeInteger THEN "LARGE_INTEGER_TAG"
  ELSE IF p = AnArray THEN "ARRAY_TAG"
  ELSE IF p \in {CowInstance, SliceInstance, InnerSlice} THEN "INSTANCE_TAG"
  ELSE "ODDBALL_TAG"

is_string(arrays, p) == is_heap_object(p) /\ class_tag(arrays, p) = "STRING_TAG"
is_byte_array(arrays, p) == is_heap_object(p) /\ class_tag(arrays, p) = "BYTE_ARRAY_TAG"
is_instance(arrays, p) == is_heap_object(p) /\ class_tag(arrays, p) = "INSTANCE_TAG"

\* The bytes held by a string or byte array.
StoredBytes(arrays, p) ==
  IF p = TheString THEN <<97, 98, 99>>
  ELSE IF p = InternalBytes THEN <<1, 2, 3>>
  ELSE IF p = ExternalBytes THEN <<4, 5, 6>>
  ELSE IF p = StructBytes THEN <<7, 8>>
  ELSE arrays[AllocationIndex(p)]

\* ByteArray::raw_length: the length, or -1 - length of an external array.
raw_length(arrays, p) ==
  IF p \in {ExternalBytes, StructBytes}
  THEN -1 - Len(StoredBytes(arrays, p))
  ELSE Len(StoredBytes(arrays, p))

has_external_address(arrays, p) == raw_length(arrays, p) < 0

external_tag(p) == IF p = ExternalBytes THEN "RawByteTag" ELSE "NullStructTag"

\* A length read from the length field as it is stored.
Bytes_length_raw(arrays, p) == raw_length(arrays, p)

\* ByteArray::Bytes and String::Bytes: address and length of the content.
Bytes_length(arrays, p) ==
  LET l == raw_length(arrays, p) IN IF l >= 0 THEN l ELSE -1 - l
Bytes_address(p) == [obj |-> p, off |-> 0]

\* The length bytes found at a content pointer.
ReadBytes(arrays, content, length) ==
  SubSeq(StoredBytes(arrays, content.obj), content.off + 1, content.off + length)

\* Instance::class_id, Instance::at and Instance::at_put on the
\* instances; h holds the fields cow, slice and nested, slot i is
\* slots[i + 1].
InstanceOf(h, p) ==
  IF p = CowInstance THEN h.cow
  ELSE IF p = SliceInstance THEN h.slice
  ELSE h.nested
Instance_class_id(h, p) == InstanceOf(h, p).class_id
Instance_at(h, p, index) == InstanceOf(h, p).slots[index + 1]
Instance_at_put(instance, index, value) ==
  [instance EXCEPT !.slots[index + 1] = value]

\* A bounds test without the upper bound.
slice_in_range_no_upper(from_value, to_value, length) ==
  0 <= from_value /\ from_value <= to_value

\* The bounds test of the slice branches.
slice_in_range(from_value, to_value, length) ==
  0 <= from_value /\ from_value <= to_value /\ to_value <= length

\* Object::byte_content with out-parameters content and length: o holds
\* their values at entry, the result their values at exit and the return
\* value.
RECURSIVE byte_content(_, _, _, _)
byte_content(h, this, o, strings_only) ==
  LET failed == [ret |-> FALSE, content |-> o.content, length |-> o.length]
      bytes == [ret |-> TRUE,
                content |-> Bytes_address(this),
                length |-> Bytes_length(h.allocated, this)]
  IN IF is_string(h.allocated, this) THEN bytes
     ELSE IF strings_only = "STRINGS_OR_BYTE_ARRAYS" /\ is_byte_array(h.allocated, this) THEN
       IF has_external_address(h.allocated, this) /\ external_tag(this) # "RawByteTag"
       THEN failed
       ELSE bytes
     ELSE IF is_instance(h.allocated, this) THEN
       LET class_id == Instance_class_id(h, this)
       IN IF strings_only = "STRINGS_OR_BYTE_ARRAYS" /\ class_id = byte_array_cow_class_id THEN
            byte_content(h, Instance_at(h, this, 0), o, strings_only)
          ELSE IF \/ (strings_only = "STRINGS_OR_BYTE_ARRAYS"
                       /\ class_id = byte_array_slice_class_id)
                  \/ class_id = string_slice_class_id THEN
            LET wrapped == Instance_at(h, this, 0)
                from == Instance_at(h, this, 1)
                to == Instance_at(h, this, 2)
                from_value == Smi_value(from)
                to_value == Smi_value(to)
                inner == byte_content(h, wrapped, o, strings_only)
            IN IF ~is_heap_object(wrapped) THEN failed
               ELSE IF ~is_smi(from) THEN failed
               ELSE IF ~is_smi(to) THEN failed
               ELSE IF ~inner.ret THEN [inner EXCEPT !.ret = FALSE]
               ELSE IF slice_in_range(from_value, to_value, inner.length)
                 THEN [ret |-> TRUE,
                       content |-> [inner.content EXCEPT !.off = @ + from_value],
                       length |-> to_value - from_value]
               ELSE [inner EXCEPT !.ret = FALSE]
          ELSE failed
     ELSE failed

\* Process::allocate_byte_array: a zeroed byte array, or null (0) with the
\* error set when the heap has no room.
allocate_byte_array(arrays, length, error, has_room) ==
  IF has_room
  THEN [object |-> AllocationAt(Len(arrays) + 1),
        allocated |-> Append(arrays, [i \in 1 .. length |-> 0]),
        error |-> error]
  ELSE [object |-> 0, allocated |-> arrays, error |-> "ALLOCATION_FAILED"]

\* A memcpy that copies nothing.
memcpy_nothing(arrays, object, bytes) == arrays

\* memcpy into the content of an allocated byte array.
memcpy(arrays, object, bytes) ==
  [arrays EXCEPT ![AllocationIndex(object)] = bytes]

\* A materialization that installs the new backing but leaves the flag.
make_mutable_keeps_flag(instance, new_backing) ==
  Instance_at_put(instance, 0, new_backing)

\* The two stores that end a materialization: the new backing and the flag.
make_mutable(instance, new_backing) ==
  Instance_at_put(Instance_at_put(instance, 0, new_backing), 1, true_object)

\* An out-of-memory exit that has already marked the instance mutable.
allocation_failed_marks_mutable(st, error) ==
  [st EXCEPT !.content = NullContent, !.length = 0, !.error = error,
             !.alloc_failed = TRUE, !.ret = TRUE,
             !.cow = Instance_at_put(@, 1, true_object)]

\* The exit of the copy-on-write branch when allocate_byte_array returned
\* null: content null, length 0, the error as the allocator set it, and
\* true returned.
allocation_failed(st, error) ==
  [st EXCEPT !.content = NullContent, !.length = 0, !.error = error,
             !.alloc_failed = TRUE, !.ret = TRUE]

\* In the slice branch `content` is the address of the caller's variable,
\* which is never null.
content_parameter_is_null == FALSE

\* Object::mutable_byte_content: st holds the heap (cow, slice, allocated)
\* and the out-parameters content, length and error at entry; the result
\* holds them at exit, with the return value in ret and alloc_failed set
\* when allocate_byte_array returned null.
RECURSIVE mutable_byte_content(_, _, _)
mutable_byte_content(st, this, has_room) ==
  IF is_byte_array(st.allocated, this) THEN
    IF has_external_address(st.allocated, this) /\ external_tag(this) # "RawByteTag"
    THEN [st EXCEPT !.ret = FALSE]
    ELSE [st EXCEPT !.length = Bytes_length(st.allocated, this),
                    !.content = Bytes_address(this),
                    !.ret = TRUE]
  ELSE IF ~is_instance(st.allocated, this) THEN [st EXCEPT !.ret = FALSE]
  ELSE IF Instance_class_id(st, this) = byte_array_cow_class_id THEN
    LET backing == Instance_at(st, this, 0)
        is_mutable == Instance_at(st, this, 1)
        immutable == byte_content(st, backing, [content |-> NullContent, length |-> 0],
                                  "STRINGS_OR_BYTE_ARRAYS")
        alloc == allocate_byte_array(st.allocated, immutable.length, st.error, has_room)
        new_backing == alloc.object
        copied == memcpy(alloc.allocated, new_backing,
                         ReadBytes(st.allocated, immutable.content, immutable.length))
    IN IF is_mutable = true_object THEN mutable_byte_content(st, backing, has_room)
       ELSE IF ~immutable.ret THEN [st EXCEPT !.ret = FALSE]
       ELSE IF new_backing = 0 THEN allocation_failed(st, alloc.error)
       ELSE mutable_byte_content(
              [st EXCEPT !.allocated = copied, !.cow = make_mutable(@, new_backing)],
              new_backing, has_room)
  ELSE IF Instance_class_id(st, this) = byte_array_slice_class_id THEN
    LET byte_array == Instance_at(st, this, 0)
        from == Instance_at(st, this, 1)
        to == Instance_at(st, this, 2)
        from_value == Smi_value(from)
        to_value == Smi_value(to)
        inner == mutable_byte_content(st, byte_array, has_room)
    IN IF ~is_heap_object(byte_array) THEN [st EXCEPT !.ret = FALSE]
       ELSE IF ~is_smi(from) THEN [st EXCEPT !.ret = FALSE]
       ELSE IF ~is_smi(to) THEN [st EXCEPT !.ret = FALSE]
       ELSE IF ~inner.ret THEN [inner EXCEPT !.ret = FALSE]
       ELSE IF content_parameter_is_null THEN inner
       ELSE IF slice_in_range(from_value, to_value, inner.length) THEN
         [inner EXCEPT !.content = [@ EXCEPT !.off = @ + from_value],
                       !.length = to_value - from_value,
                       !.ret = TRUE]
       ELSE [inner EXCEPT !.ret = FALSE]
  ELSE [st EXCEPT !.ret = FALSE]

\* The objects the extractors are called on.
Receivers ==
  {TheString, InternalBytes, ExternalBytes, StructBytes, AnArray, CowInstance,
   SliceInstance, Smi_from(1)}

\* What the caller's content and length hold before a call: null and 0 as
\* the blob variants set them, or what an earlier extraction left there.
CallerValues ==
  {[content |-> NullContent, length |-> 0, error |-> NoError],
   [content |-> Bytes_address(ExternalBytes), length |-> 3, error |-> NoError]}

InitBytes ==
  /\ IdleOthers
  /\ val = 0
  /\ val_in = 0
  /\ val_op = "none"
  /\ stack = Stack_initialize(TaskPointer, InitialLength)
  /\ stack_at = 1
  /\ interp = NullRegisters
  /\ held = FALSE
  /\ fatal = FALSE
  /\ last_op = "none"
  /\ pre = NoSnapshot
  /\ visited = <<>>
  /\ \E backing \in {InternalBytes, ExternalBytes, StructBytes} :
       cow = [class_id |-> byte_array_cow_class_id, slots |-> <<backing, false_object>>]
  /\ \E class_id \in {byte_array_slice_class_id, string_slice_class_id},
        wrapped \in {InternalBytes, StructBytes, TheString, CowInstance, AnArray, Smi_from(1)},
        from \in {Smi_from(-1), Smi_from(0), Smi_from(1), LargeInteger},
        to \in {Smi_from(0), Smi_from(2), Smi_from(4), LargeInteger} :
       slice = [class_id |-> class_id, slots |-> <<wrapped, from, to>>]
  /\ nested = <<>>
  /\ allocated = <<>>
  /\ pre_out \in CallerValues
  /\ out = pre_out
  /\ ret = FALSE
  /\ call = NoCall

\* A call of byte_content(program, &content, &length, strings_only).
CallByteContent ==
  \E this \in Receivers, strings_only \in BlobKind :
    \E r \in {byte_content([cow |-> cow, slice |-> slice, nested |-> nested,
                              allocated |-> allocated],
                             this, pre_out, strings_only)} :
       /\ out' = [content |-> r.content, length |-> r.length, error |-> pre_out.error]
       /\ ret' = r.ret
       /\ call' = [fn |-> "byte_content", this |-> this, kind |-> strings_only,
                   alloc_failed |-> FALSE,
                   allocations |-> 0]
       /\ UNCHANGED <<cow, slice, nested, allocated, pre_out>>
       /\ UNCHANGED <<value_vars, stack_vars, other_vars>>

\* A call of mutable_byte_content(process, &content, &length, &error), with
\* or without room in the heap for a new byte array.
CallMutableByteContent ==
  \E this \in Receivers, has_room \in BOOLEAN :
    \E r \in {mutable_byte_content(
                 [cow |-> cow, slice |-> slice, nested |-> nested, allocated |-> allocated,
                  content |-> pre_out.content, length |-> pre_out.length,
                  error |-> pre_out.error, alloc_failed |-> FALSE, ret |-> FALSE],
                 this, has_room)} :
       /\ Len(r.allocated) <= MaxAllocs
       /\ cow' = r.cow
       /\ allocated' = r.allocated
       /\ out' = [content |-> r.content, length |-> r.length, error |-> r.error]
       /\ ret' = r.ret
       /\ call' = [fn |-> "mutable_byte_content", this |-> this, kind |-> "none",
                   alloc_failed |-> r.alloc_failed,
                   allocations |-> Len(r.allocated) - Len(allocated)]
       /\ UNCHANGED <<slice, nested, pre_out>>
       /\ UNCHANGED <<value_vars, stack_vars, other_vars>>

NextBytes ==
  \/ CallByteContent
  \/ CallMutableByteContent

SpecBytes == InitBytes /\ [][NextBytes]_vars

\* The stack part of the state when no stack operation is under study.
IdleStack ==
  /\ val = 0
  /\ val_in = 0
  /\ val_op = "none"
  /\ stack = Stack_initialize(TaskPointer, InitialLength)
  /\ stack_at = 1
  /\ interp = NullRegisters
  /\ held = FALSE
  /\ fatal = FALSE
  /\ last_op = "none"
  /\ pre = NoSnapshot
  /\ visited = <<>>

\* A heap where the process has allocated one byte array already, which
\* may be the backing of the copy-on-write instance.
EarlierBytes == <<9, 8>>
InitCow ==
  /\ IdleStack
  /\ IdleOthers
  /\ allocated = <<EarlierBytes>>
  /\ \E backing \in {InternalBytes, ExternalBytes, StructBytes, FirstAllocation} :
       cow = [class_id |-> byte_array_cow_class_id, slots |-> <<backing, false_object>>]
  /\ \E from \in {Smi_from(0), Smi_from(1)}, to \in {Smi_from(1), Smi_from(2), Smi_from(4)} :
       slice = [class_id |-> byte_array_slice_class_id,
                slots |-> <<CowInstance, from, to>>]
  /\ nested = <<>>
  /\ pre_out \in CallerValues
  /\ out = pre_out
  /\ ret = FALSE
  /\ call = NoCall

SpecCow == InitCow /\ [][NextBytes]_vars

\* A heap where the slice instance wraps a string or the second slice
\* instance, which in turn wraps a string, a byte array or the
\* copy-on-write instance.
InitNested ==
  /\ IdleStack
  /\ IdleOthers
  /\ allocated = <<>>
  /\ cow = [class_id |-> byte_array_cow_class_id, slots |-> <<InternalBytes, false_object>>]
  /\ \E class_id \in {byte_array_slice_class_id, string_slice_class_id},
        wrapped \in {InternalBytes, TheString, CowInstance},
        from \in {Smi_from(0), Smi_from(1)},
        to \in {Smi_from(3), Smi_from(4)} :
       nested = [class_id |-> class_id, slots |-> <<wrapped, from, to>>]
  /\ \E class_id \in {byte_array_slice_class_id, string_slice_class_id},
        wrapped \in {InnerSlice, TheString},
        from \in {Smi_from(-1), Smi_from(0), Smi_from(1), LargeInteger},
        to \in {Smi_from(0), Smi_from(1), Smi_from(3), LargeInteger} :
       slice = [class_id |-> class_id, slots |-> <<wrapped, from, to>>]
  /\ pre_out = [content |-> NullContent, length |-> 0, error |-> NoError]
  /\ out = pre_out
  /\ ret = FALSE
  /\ call = NoCall

SpecNested == InitNested /\ [][NextBytes]_vars

\* ------------------------------------------------------------------------
\* Strings: hash code, equality and comparison
\* ------------------------------------------------------------------------

\* The longest byte sequence given to compute_hash_code_for.
MaxStrLen == 3

\* Conversion of an int to int16, and of a char to int8.
Int16Modulus == Pow2(16)
ToInt16(n) == ((n + Int16Modulus \div 2) % Int16Modulus) - Int16Modulus \div 2

\* A conversion that keeps the byte unsigned.
ToInt8_unsigned(b) == b

ToInt8(b) == IF b >= 128 THEN b - 256 ELSE b

\* String::NO_HASH_CODE
NO_HASH_CODE == -1

\* The loop of compute_hash_code_for; str[index] of the code is
\* str[index + 1] here.
RECURSIVE compute_hash_code_loop(_, _, _, _)
compute_hash_code_loop(str, str_len, index, hash) ==
  IF index < str_len
  THEN compute_hash_code_loop(str, str_len, index + 1,
                              ToInt16(31 * hash + ToInt8(str[index + 1])))
  ELSE hash

\* String::compute_hash_code_for(str, str_len).
compute_hash_code_for(str, str_len) ==
  LET hash == compute_hash_code_loop(str, str_len, 0, ToInt16(str_len))
  IN IF hash # NO_HASH_CODE THEN hash ELSE 0

\* The bytes compute_hash_code_for is given.
HashBytes == {0, 1, 6, 97, 128, 162, 197, 231, 255}
RECURSIVE ByteStrings(_)
ByteStrings(n) ==
  IF n = 0 THEN {<<>>}
  ELSE LET shorter == ByteStrings(n - 1)
       IN shorter \cup {Append(str, b) : str \in {x \in shorter : Len(x) = n - 1},
                                          b \in HashBytes}

\* The caller holds the bytes it is about to hash.
InitHash ==
  /\ IdleStack
  /\ IdleBytes
  /\ IdleExternal
  /\ IdleFrames
  /\ IdleOverflow
  /\ IdleGc
  /\ IdleRoots
  /\ IdleSnapshot
  /\ IdleCompare
  /\ IdleAccess
  /\ this_string = <<>>
  /\ other_object = <<>>
  /\ \E str \in ByteStrings(MaxStrLen) :
       str_call = [NoStringCall EXCEPT !.arg = str]
  /\ str_ret = 0

\* The call of compute_hash_code_for(str, str_len) on those bytes.
ComputeHashCodeFor ==
  /\ str_call.fn = "none"
  /\ str_call' = [str_call EXCEPT !.fn = "compute_hash_code_for"]
  /\ str_ret' = compute_hash_code_for(str_call.arg, Len(str_call.arg))
  /\ UNCHANGED <<this_string, other_object>>
  /\ UNCHANGED <<value_vars, stack_vars, bytes_vars, ext_vars, frame_vars, access_vars, compare_vars, snapshot_vars, roots_vars, gc_vars, overflow_vars>>

NextHash == ComputeHashCodeFor

SpecHash == InitHash /\ [][NextHash]_vars

\* String::compute_hash_code: the hash of the string's own bytes.
compute_hash_code(s) == compute_hash_code_for(s.bytes, Len(s.bytes))

\* An assignment that computes the hash code and does not store it.
String_assign_hash_code_no_store(s) ==
  [ret |-> compute_hash_code(s), string |-> s]

\* String::_assign_hash_code: stores the computed hash code and returns
\* the stored field.
String_assign_hash_code(s) ==
  LET stored == [s EXCEPT !.hash_code = compute_hash_code(s)]
  IN [ret |-> stored.hash_code, string |-> stored]

\* A hash_code that returns the stored field as it is.
hash_code_raw(s) == [ret |-> s.hash_code, string |-> s]

\* String::hash_code: the result and the string after the call.
hash_code(s) ==
  IF s.hash_code # NO_HASH_CODE
  THEN [ret |-> s.hash_code, string |-> s]
  ELSE String_assign_hash_code(s)

\* A memcmp that compares the bytes as signed chars.
memcmp_signed(a, b, n) ==
  IF \A i \in 1 .. n : a[i] = b[i] THEN 0
  ELSE LET i == CHOOSE k \in 1 .. n : a[k] # b[k] /\ \A j \in 1 .. (k - 1) : a[j] = b[j]
       IN ToInt8(a[i]) - ToInt8(b[i])

\* memcmp over the first n bytes: zero, or the difference of the first
\* bytes that differ, taken as unsigned chars.
memcmp(a, b, n) ==
  IF \A i \in 1 .. n : a[i] = b[i] THEN 0
  ELSE LET i == CHOOSE k \in 1 .. n : a[k] # b[k] /\ \A j \in 1 .. (k - 1) : a[j] = b[j]
       IN a[i] - b[i]

\* String::slow_equals(bytes_a, length_a, bytes_b, length_b).
slow_equals(string_a, length_a, string_b, length_b) ==
  length_a = length_b /\ memcmp(string_a, string_b, length_a) = 0

\* String::equals(other); same tells that other is this very object.  The
\* result holds both objects after the call.
equals(this, other, same) ==
  LET mine == hash_code(this)
      theirs == hash_code(other)
  IN IF same THEN [ret |-> TRUE, this |-> this, other |-> other]
     ELSE IF ~other.is_string THEN [ret |-> FALSE, this |-> this, other |-> other]
     ELSE IF mine.ret # theirs.ret
       THEN [ret |-> FALSE, this |-> mine.string, other |-> theirs.string]
     ELSE [ret |-> slow_equals(this.bytes, Len(this.bytes), other.bytes, Len(other.bytes)),
           this |-> mine.string, other |-> theirs.string]

\* The static String::compare(string_a, length_a, string_b, length_b).
compare(string_a, length_a, string_b, length_b) ==
  LET min_len == IF length_a <= length_b THEN length_a ELSE length_b
      equal_result == IF length_a = length_b THEN 0
                      ELSE IF length_a < length_b THEN -1
                      ELSE 1
      comp == memcmp(string_a, string_b, min_len)
  IN IF comp = 0 THEN equal_result
     ELSE IF comp < 0 THEN -1
     ELSE 1

\* String::compare(other).
String_compare(this, other, same) ==
  IF same THEN 0
  ELSE compare(this.bytes, Len(this.bytes), other.bytes, Len(other.bytes))

\* The contents of the strings of the heap: valid UTF-8, with and without
\* an embedded NUL and multi-byte characters.
StringContents ==
  {<<>>, <<0>>, <<97>>, <<98>>, <<97, 0>>, <<97, 98>>, <<97, 0, 98>>,
   <<195, 169>>, <<197, 162>>, <<97, 197, 162>>}

\* A String is unhashed or holds the hash code assigned to it.
Strings ==
  {[is_string |-> TRUE, bytes |-> str, hash_code |-> h] :
     str \in StringContents, h \in {NO_HASH_CODE}} \cup
  {[is_string |-> TRUE, bytes |-> str, hash_code |-> compute_hash_code_for(str, Len(str))] :
     str \in StringContents}

\* A heap object that is not a String.
NotAString == [is_string |-> FALSE, bytes |-> <<97>>, hash_code |-> 0]

InitStrings ==
  /\ IdleStack
  /\ IdleBytes
  /\ IdleExternal
  /\ IdleFrames
  /\ IdleOverflow
  /\ IdleGc
  /\ IdleRoots
  /\ IdleSnapshot
  /\ IdleCompare
  /\ IdleAccess
  /\ this_string \in Strings
  /\ other_object \in Strings \cup {NotAString}
  /\ str_call = NoStringCall
  /\ str_ret = 0

\* this_string->hash_code().
HashCode ==
  \E r \in {hash_code(this_string)} :
    /\ this_string' = r.string
    /\ str_ret' = r.ret
    /\ str_call' = [NoStringCall EXCEPT !.fn = "hash_code",
                                         !.raw_before = this_string.hash_code]
    /\ UNCHANGED other_object
    /\ UNCHANGED <<value_vars, stack_vars, bytes_vars, ext_vars, frame_vars, access_vars, compare_vars, snapshot_vars, roots_vars, gc_vars, overflow_vars>>

\* this_string->equals(other), with other the other object or this_string
\* itself.
Equals ==
  \E same \in BOOLEAN :
    \E r \in {equals(this_string, IF same THEN this_string ELSE other_object, same)} :
      /\ this_string' = r.this
      /\ other_object' = IF same THEN other_object ELSE r.other
      /\ str_ret' = r.ret
      /\ str_call' = [NoStringCall EXCEPT !.fn = "equals",
                                           !.raw_before = this_string.hash_code,
                                           !.same = same]
      /\ UNCHANGED <<value_vars, stack_vars, bytes_vars, ext_vars, frame_vars, access_vars, compare_vars, snapshot_vars, roots_vars, gc_vars, overflow_vars>>

\* this_string->compare(other), with other a String or this_string itself.
Compare ==
  \E same \in BOOLEAN :
    /\ same \/ other_object.is_string
    /\ str_ret' = String_compare(this_string,
                                 IF same THEN this_string ELSE other_object, same)
    /\ str_call' = [NoStringCall EXCEPT !.fn = "compare",
                                         !.raw_before = this_string.hash_code,
                                         !.same = same]
    /\ UNCHANGED <<this_string, other_object>>
    /\ UNCHANGED <<value_vars, stack_vars, bytes_vars, ext_vars, frame_vars, access_vars, compare_vars, snapshot_vars, roots_vars, gc_vars, overflow_vars>>

NextStrings ==
  \/ HashCode
  \/ Equals
  \/ Compare

SpecStrings == InitStrings /\ [][NextStrings]_vars

\* ------------------------------------------------------------------------
\* External byte arrays: neuter
\* ------------------------------------------------------------------------

\* The longest external buffer, and the most operations made on the array.
MaxExternalLength == 3
MaxExternalOps == 3

\* Where external buffers lie.
ExternalAddresses == {64, 128}

\* ByteArray::_set_external_length and the accessors of an external array.
ByteArray_set_external_length(array, length) == [array EXCEPT !.raw_length = -1 - length]
ByteArray_set_external_address(array, value) == [array EXCEPT !.external_address = value]
ByteArray_has_external_address(array) == array.raw_length < 0

\* ByteArray::Bytes(array): address and length of the content.
ByteArray_Bytes(array) ==
  IF array.raw_length >= 0
  THEN [address |-> array.content, length |-> array.raw_length]
  ELSE [address |-> array.external_address, length |-> -1 - array.raw_length]

\* Process::unregister_external_allocation(size).
unregister_external_allocation(registered, size) == registered - size

\* A neuter that leaves the address in the array.
neuter_keeps_address(array, registered) ==
  LET bytes == ByteArray_Bytes(array)
  IN [ret |-> bytes.address,
      unregistered |-> bytes.length,
      registered |-> unregister_external_allocation(registered, bytes.length),
      array |-> ByteArray_set_external_length(array, 0)]

\* ByteArray::neuter: the address returned, the size unregistered, and the
\* process and the array after the call.
neuter(array, registered) ==
  LET bytes == ByteArray_Bytes(array)
  IN [ret |-> bytes.address,
      unregistered |-> bytes.length,
      registered |-> unregister_external_allocation(registered, bytes.length),
      array |-> ByteArray_set_external_length(ByteArray_set_external_address(array, 0), 0)]

\* An external byte array tagged RawByteTag whose buffer is registered
\* with the process, alone or beside other external memory.
InitExternal ==
  /\ IdleStack
  /\ IdleBytes
  /\ IdleStrings
  /\ IdleFrames
  /\ IdleOverflow
  /\ IdleGc
  /\ IdleRoots
  /\ IdleSnapshot
  /\ IdleCompare
  /\ IdleAccess
  /\ \E address \in ExternalAddresses, length \in 0 .. MaxExternalLength,
        others \in {0, MaxExternalLength + 1} :
       /\ ext_array = [raw_length |-> -1 - length, external_address |-> address,
                       external_tag |-> "RawByteTag", content |-> 0]
       /\ ext_registered = length + others
       /\ ext_initial = [address |-> address, length |-> length,
                         registered |-> length + others]
  /\ ext_log = <<>>

\* array->neuter(process); its two ASSERTs are the guard.
Neuter ==
  /\ Len(ext_log) < MaxExternalOps
  /\ ByteArray_has_external_address(ext_array)
  /\ ext_array.external_tag = "RawByteTag"
  /\ \E r \in {neuter(ext_array, ext_registered)} :
       /\ ext_array' = r.array
       /\ ext_registered' = r.registered
       /\ ext_log' = Append(ext_log, [op |-> "neuter", ret |-> r.ret, length |-> 0,
                                      unregistered |-> r.unregistered])
  /\ UNCHANGED ext_initial
  /\ UNCHANGED <<value_vars, stack_vars, bytes_vars, string_vars, frame_vars, access_vars, compare_vars, snapshot_vars, roots_vars, gc_vars, overflow_vars>>

\* ByteArray::Bytes bytes(array): a read of the address and the length.
ReadBytes_external ==
  /\ Len(ext_log) < MaxExternalOps
  /\ \E bytes \in {ByteArray_Bytes(ext_array)} :
       ext_log' = Append(ext_log, [op |-> "Bytes", ret |-> bytes.address,
                                   length |-> bytes.length, unregistered |-> 0])
  /\ UNCHANGED <<ext_array, ext_registered, ext_initial>>
  /\ UNCHANGED <<value_vars, stack_vars, bytes_vars, string_vars, frame_vars, access_vars, compare_vars, snapshot_vars, roots_vars, gc_vars, overflow_vars>>

NextExternal ==
  \/ Neuter
  \/ ReadBytes_external

SpecExternal == InitExternal /\ [][NextExternal]_vars

\* ------------------------------------------------------------------------
\* Scavenges that start inside run()
\* ------------------------------------------------------------------------

\* A scavenge that leaves the stack in the interpreter.
Interpreter_store_stack_skipped(raw, s, in) == s

\* Interpreter::store_stack(sp): the registers go back into the Stack
\* object of the running task.
Interpreter_store_stack(raw, s, in) == transfer_from_interpreter(raw, s, in)

InitScavenge ==
  /\ IdleBytes
  /\ IdleStrings
  /\ IdleExternal
  /\ IdleFrames
  /\ IdleOverflow
  /\ IdleAccess
  /\ IdleCompare
  /\ IdleSnapshot
  /\ IdleRoots
  /\ val = 0
  /\ val_in = 0
  /\ val_op = "none"
  /\ stack = Stack_initialize(TaskPointer, InitialLength)
  /\ stack_at = 1
  /\ interp = NullRegisters
  /\ held = FALSE
  /\ fatal = FALSE
  /\ last_op = "none"
  /\ pre = NoSnapshot
  /\ visited = <<>>
  /\ gc_pc = "mutator"
  /\ gc_walk = NoWalk

\* run() starts: load_stack().
RunLoadStack ==
  /\ gc_pc = "mutator" /\ ~held
  /\ TransferToInterpreter

\* run() returns: store_stack().
RunStoreStack ==
  /\ gc_pc = "mutator" /\ held
  /\ TransferFromInterpreter

\* Interpreter::scavenge(sp, ...), first half: the stack is stored before
\* the collector runs.
ScavengeStoreStack ==
  /\ gc_pc = "mutator" /\ held /\ ~fatal
  /\ stack' = Interpreter_store_stack(StackRaw, stack, interp)
  /\ held' = FALSE
  /\ gc_pc' = "stored"
  /\ last_op' = "scavenge"
  /\ pre' = NoSnapshot
  /\ visited' = <<>>
  /\ UNCHANGED <<interp, stack_at, fatal, gc_walk, value_vars, bytes_vars>>
  /\ UNCHANGED <<string_vars, ext_vars, frame_vars, access_vars, compare_vars>>
  /\ UNCHANGED <<snapshot_vars, roots_vars, overflow_vars>>

\* The collector calls Stack::roots_do on the task's stack.  A walk from a
\* top below 0 starts in front of the slots.
GcRootsDo ==
  /\ gc_pc = "stored" /\ ~fatal
  /\ gc_walk' = [op |-> "roots_do", top |-> stack.top]
  /\ visited' = IF stack.top >= 0 THEN roots_do(stack) ELSE <<>>
  /\ fatal' = (stack.top < 0)
  /\ last_op' = "roots_do"
  /\ pre' = NoSnapshot
  /\ UNCHANGED <<stack, interp, stack_at, held, gc_pc, value_vars, bytes_vars>>
  /\ UNCHANGED <<string_vars, ext_vars, frame_vars, access_vars, compare_vars>>
  /\ UNCHANGED <<snapshot_vars, roots_vars, overflow_vars>>

\* The collector calls Stack::frames_do on the task's stack.
GcFramesDo ==
  /\ gc_pc = "stored" /\ ~fatal
  /\ gc_walk' = [op |-> "frames_do", top |-> stack.top]
  /\ frames' = IF stack.top >= 0 THEN frames_do(stack) ELSE NoFrames
  /\ fatal' = (stack.top < 0)
  /\ last_op' = "frames_do"
  /\ pre' = NoSnapshot
  /\ visited' = <<>>
  /\ UNCHANGED <<stack, interp, stack_at, held, gc_pc, value_vars, bytes_vars>>
  /\ UNCHANGED <<string_vars, ext_vars, access_vars, compare_vars>>
  /\ UNCHANGED <<snapshot_vars, roots_vars, overflow_vars>>

\* The stack is copied into a longer one with Stack::copy_to.
GcCopyTo ==
  /\ gc_pc = "stored" /\ ~fatal
  /\ gc_walk' = [op |-> "copy_to", top |-> stack.top]
  /\ IF stack.top >= 0
     THEN /\ \E other_length \in stack.length + 1 .. MaxLength :
               stack' = copy_to(stack, other_length)
          /\ stack_at' = 3 - stack_at
          /\ UNCHANGED fatal
     ELSE /\ fatal' = TRUE
          /\ UNCHANGED <<stack, stack_at>>
  /\ last_op' = "copy_to"
  /\ pre' = NoSnapshot
  /\ visited' = <<>>
  /\ UNCHANGED <<interp, held, gc_pc, value_vars, bytes_vars>>
  /\ UNCHANGED <<string_vars, ext_vars, frame_vars, access_vars, compare_vars>>
  /\ UNCHANGED <<snapshot_vars, roots_vars, overflow_vars>>

\* Interpreter::scavenge, second half: load_stack() after the collection.
ScavengeLoadStack ==
  /\ gc_pc = "stored" /\ ~fatal
  /\ gc_pc' = "mutator"
  /\ last_op' = "transfer_to"
  /\ pre' = [stack |-> stack, raw |-> StackRaw, arg |-> 0]
  /\ visited' = <<>>
  /\ IF stack.top > 0 /\ stack.top <= stack.length
     THEN /\ interp' = transfer_to_interpreter_registers(StackRaw, stack)
          /\ stack' = transfer_to_interpreter_stack(stack)
          /\ held' = TRUE
          /\ UNCHANGED fatal
     ELSE /\ fatal' = TRUE
          /\ UNCHANGED <<interp, stack, held>>
  /\ UNCHANGED <<stack_at, gc_walk, value_vars, bytes_vars>>
  /\ UNCHANGED <<string_vars, ext_vars, frame_vars, access_vars, compare_vars>>
  /\ UNCHANGED <<snapshot_vars, roots_vars, overflow_vars>>

NextScavenge ==
  \/ RunLoadStack
  \/ RunStoreStack
  \/ PushValue
  \/ Pop
  \/ ScavengeStoreStack
  \/ GcRootsDo
  \/ GcFramesDo
  \/ GcCopyTo
  \/ ScavengeLoadStack

SpecScavenge == InitScavenge /\ [][NextScavenge]_vars

\* ------------------------------------------------------------------------
\* Stack overflow: OVERFLOW_EXCEPTION and reset_stack_limit
\* ------------------------------------------------------------------------

\* Stack::OVERFLOW_HEADROOM, scaled down to the stack lengths used here.
OVERFLOW_HEADROOM == 2
\* The most stack overflow exceptions followed in one run.
MaxOverflows == 2
\* Stack::max_length(): a stack of this length cannot grow.
Stack_max_length == MaxLength

\* The address the stack pointer is checked against: the limit plus the
\* headroom, or the limit itself while a stack overflow is being thrown.
watermark_for(in) ==
  IF in.in_stack_overflow THEN in.limit
  ELSE in.limit + OVERFLOW_HEADROOM * WORD_SIZE

\* The flag of the running task's stack: in the interpreter while it holds
\* the stack, in the Stack object otherwise.
CurrentInStackOverflow ==
  IF held THEN interp.in_stack_overflow ELSE stack.in_stack_overflow

InitOverflow ==
  /\ IdleBytes
  /\ IdleStrings
  /\ IdleExternal
  /\ IdleFrames
  /\ IdleAccess
  /\ IdleCompare
  /\ IdleSnapshot
  /\ IdleRoots
  /\ IdleGc
  /\ val = 0
  /\ val_in = 0
  /\ val_op = "none"
  /\ stack = Stack_initialize(TaskPointer, InitialLength)
  /\ stack_at = 1
  /\ interp = NullRegisters
  /\ held = FALSE
  /\ fatal = FALSE
  /\ last_op = "none"
  /\ pre = NoSnapshot
  /\ visited = <<>>
  /\ watermark = 0
  /\ overflow_state = "none"
  /\ overflows = 0

\* Interpreter::load_stack: the registers come from the Stack object and
\* the watermark follows the limit and the flag.
OverflowLoadStack ==
  /\ ~held /\ ~fatal
  /\ stack.top > 0 /\ stack.top <= stack.length
  /\ interp' = transfer_to_interpreter_registers(StackRaw, stack)
  /\ stack' = transfer_to_interpreter_stack(stack)
  /\ held' = TRUE
  /\ watermark' = watermark_for(transfer_to_interpreter_registers(StackRaw, stack))
  /\ last_op' = "transfer_to"
  /\ pre' = NoSnapshot
  /\ visited' = <<>>
  /\ UNCHANGED <<stack_at, fatal, overflow_state, overflows, value_vars, bytes_vars>>
  /\ UNCHANGED <<string_vars, ext_vars, frame_vars, access_vars, compare_vars>>
  /\ UNCHANGED <<snapshot_vars, roots_vars, gc_vars>>

\* Interpreter::store_stack
OverflowStoreStack ==
  /\ held /\ ~fatal
  /\ \E s2 \in {transfer_from_interpreter(StackRaw, stack, interp)} :
       /\ stack' = s2
       /\ fatal' = ~(s2.top > 0 /\ s2.top <= s2.length)
  /\ held' = FALSE
  /\ last_op' = "transfer_from"
  /\ pre' = NoSnapshot
  /\ visited' = <<>>
  /\ UNCHANGED <<interp, stack_at, overflow_vars, value_vars, bytes_vars>>
  /\ UNCHANGED <<string_vars, ext_vars, frame_vars, access_vars, compare_vars>>
  /\ UNCHANGED <<snapshot_vars, roots_vars, gc_vars>>

\* Stack::copy_to of the stored stack into a stack of the same length or
\* one slot longer.
OverflowCopyTo ==
  /\ ~held /\ ~fatal
  /\ \E other_length \in stack.length .. stack.length + 1 :
       /\ other_length <= Stack_max_length
       /\ stack' = copy_to(stack, other_length)
  /\ stack_at' = 3 - stack_at
  /\ last_op' = "copy_to"
  /\ pre' = NoSnapshot
  /\ visited' = <<>>
  /\ UNCHANGED <<interp, held, fatal, overflow_vars, value_vars, bytes_vars>>
  /\ UNCHANGED <<string_vars, ext_vars, frame_vars, access_vars, compare_vars>>
  /\ UNCHANGED <<snapshot_vars, roots_vars, gc_vars>>

\* A bytecode that pushes, after its stack check passed.
OverflowPush ==
  /\ held /\ ~fatal
  /\ interp.sp > watermark
  /\ interp' = [interp EXCEPT !.sp = interp.sp - WORD_SIZE]
  /\ stack' = [stack EXCEPT !.slots[SlotIndex(interp.sp - WORD_SIZE) + 1] = TaskPointer]
  /\ last_op' = "run"
  /\ pre' = NoSnapshot
  /\ visited' = <<>>
  /\ UNCHANGED <<stack_at, held, fatal, overflow_vars, value_vars, bytes_vars>>
  /\ UNCHANGED <<string_vars, ext_vars, frame_vars, access_vars, compare_vars>>
  /\ UNCHANGED <<snapshot_vars, roots_vars, gc_vars>>

\* A bytecode that pops, or the unwinding of a throw.
OverflowPop ==
  /\ held /\ ~fatal
  /\ interp.sp < interp.base
  /\ interp' = [interp EXCEPT !.sp = interp.sp + WORD_SIZE]
  /\ last_op' = "run"
  /\ pre' = NoSnapshot
  /\ visited' = <<>>
  /\ UNCHANGED <<stack, stack_at, held, fatal, overflow_vars, value_vars, bytes_vars>>
  /\ UNCHANGED <<string_vars, ext_vars, frame_vars, access_vars, compare_vars>>
  /\ UNCHANGED <<snapshot_vars, roots_vars, gc_vars>>

\* check_stack_overflow with room to grow, OVERFLOW_RESUME: the stack is
\* stored, copied into a longer one and loaded again.
OverflowResume ==
  /\ held /\ ~fatal
  /\ interp.sp <= watermark
  /\ ~interp.in_stack_overflow
  /\ stack.length < Stack_max_length
  /\ \E s2 \in {copy_to(transfer_from_interpreter(StackRaw, stack, interp),
                        stack.length + 1)} :
       \E regs \in {transfer_to_interpreter_registers(
                       StackRawAddresses[3 - stack_at], s2)} :
         /\ stack' = transfer_to_interpreter_stack(s2)
         /\ interp' = regs
         /\ watermark' = watermark_for(regs)
  /\ stack_at' = 3 - stack_at
  /\ overflow_state' = "OVERFLOW_RESUME"
  /\ last_op' = "run"
  /\ pre' = NoSnapshot
  /\ visited' = <<>>
  /\ UNCHANGED <<held, fatal, overflows, value_vars, bytes_vars>>
  /\ UNCHANGED <<string_vars, ext_vars, frame_vars, access_vars, compare_vars>>
  /\ UNCHANGED <<snapshot_vars, roots_vars, gc_vars>>

\* check_stack_overflow without room to grow and handle_stack_overflow for
\* OVERFLOW_EXCEPTION: the flag is set and the headroom is opened for the
\* throw.
OverflowException ==
  /\ held /\ ~fatal
  /\ interp.sp <= watermark
  /\ ~interp.in_stack_overflow
  /\ stack.length >= Stack_max_length
  /\ overflows < MaxOverflows
  /\ interp' = [interp EXCEPT !.in_stack_overflow = TRUE]
  /\ watermark' = interp.limit
  /\ overflow_state' = "OVERFLOW_EXCEPTION"
  /\ overflows' = overflows + 1
  /\ last_op' = "run"
  /\ pre' = NoSnapshot
  /\ visited' = <<>>
  /\ UNCHANGED <<stack, stack_at, held, fatal, value_vars, bytes_vars>>
  /\ UNCHANGED <<string_vars, ext_vars, frame_vars, access_vars, compare_vars>>
  /\ UNCHANGED <<snapshot_vars, roots_vars, gc_vars>>

\* Interpreter::reset_stack_limit, called by the task_reset_stack_limit
\* primitive while unwinding from the stack overflow exception.
OverflowResetStackLimit ==
  /\ held /\ ~fatal
  /\ interp.in_stack_overflow
  /\ interp' = [interp EXCEPT !.in_stack_overflow = FALSE]
  /\ watermark' = interp.limit + OVERFLOW_HEADROOM * WORD_SIZE
  /\ last_op' = "reset_stack_limit"
  /\ pre' = NoSnapshot
  /\ visited' = <<>>
  /\ UNCHANGED <<stack, stack_at, held, fatal, overflow_state, overflows>>
  /\ UNCHANGED <<value_vars, bytes_vars>>
  /\ UNCHANGED <<string_vars, ext_vars, frame_vars, access_vars, compare_vars>>
  /\ UNCHANGED <<snapshot_vars, roots_vars, gc_vars>>

NextOverflow ==
  \/ OverflowLoadStack
  \/ OverflowStoreStack
  \/ OverflowCopyTo
  \/ OverflowPush
  \/ OverflowPop
  \/ OverflowResume
  \/ OverflowException
  \/ OverflowResetStackLimit

SpecOverflow == InitOverflow /\ [][NextOverflow]_vars

\* ------------------------------------------------------------------------
\* HeapObject::roots_do: the root walk by object kind (objects.cc)
\* ------------------------------------------------------------------------

Array_LENGTH_OFFSET == HeapObject_SIZE
Array_HEADER_SIZE == Array_LENGTH_OFFSET + WORD_SIZE
Array_offset_from(index) == Array_HEADER_SIZE + index * WORD_SIZE
Instance_HEADER_SIZE == HeapObject_SIZE
Instance_offset_from(index) == Instance_HEADER_SIZE + index * WORD_SIZE
Instance_length_from_size(instance_size) == (instance_size - Instance_HEADER_SIZE) \div WORD_SIZE

\* RootCallback::do_roots(roots, length): the callback sees length
\* consecutive slots from the byte offset roots on.
do_roots(roots, length) == [i \in 1 .. length |-> roots + (i - 1) * WORD_SIZE]

\* Array::roots_do
Array_roots_do(x) == do_roots(Array_offset_from(0), x.length)

\* Instance::roots_do
Instance_roots_do(x, instance_size) ==
  do_roots(Instance_offset_from(0), Instance_length_from_size(instance_size))

\* Stack::roots_do, as the byte offsets of the slots called back with.
Stack_roots_do(s) ==
  [i \in 1 .. Len(roots_do(s)) |-> Stack_array_offset_from(roots_do(s)[i])]

\* HeapObject::roots_do: the switch over class_tag().  instance_size is
\* program->instance_size_for(this).
HeapObject_roots_do(x) ==
  IF x.class_tag = "ARRAY_TAG" THEN Array_roots_do(x)
  ELSE IF x.class_tag = "STACK_TAG" THEN Stack_roots_do(x.stack)
  ELSE IF x.class_tag \in {"TASK_TAG", "INSTANCE_TAG"}
  THEN Instance_roots_do(x, x.instance_size)
  ELSE <<>>

\* The longest array and instance walked.
MaxRootSlots == 3

\* The objects walked: arrays and instances of every length, tasks (three
\* fields), the hand-built stacks, and one object of each other kind.
RootHolders ==
  {[class_tag |-> "ARRAY_TAG", length |-> n] : n \in 0 .. MaxRootSlots}
  \cup {[class_tag |-> "INSTANCE_TAG", instance_size |-> Instance_offset_from(n)] :
          n \in 0 .. MaxRootSlots}
  \cup {[class_tag |-> "TASK_TAG", instance_size |-> Instance_offset_from(3)]}
  \cup {[class_tag |-> "STACK_TAG", stack |-> s] : s \in HandBuiltStacks}
  \cup {[class_tag |-> t] : t \in {"STRING_TAG", "ODDBALL_TAG", "DOUBLE_TAG",
                                   "LARGE_INTEGER_TAG", "BYTE_ARRAY_TAG"}}

InitRoots ==
  /\ IdleStack
  /\ IdleBytes
  /\ IdleStrings
  /\ IdleExternal
  /\ IdleFrames
  /\ IdleOverflow
  /\ IdleGc
  /\ IdleAccess
  /\ IdleCompare
  /\ IdleSnapshot
  /\ root_holder \in RootHolders
  /\ root_calls = <<>>
  /\ root_pc = "walk"

\* object->roots_do(program, cb)
HeapObjectRootsDo ==
  /\ root_pc = "walk"
  /\ root_calls' = HeapObject_roots_do(root_holder)
  /\ root_pc' = "done"
  /\ UNCHANGED root_holder
  /\ UNCHANGED <<value_vars, stack_vars, bytes_vars, string_vars, ext_vars>>
  /\ UNCHANGED <<frame_vars, access_vars, compare_vars, snapshot_vars, gc_vars, overflow_vars>>

NextRoots == HeapObjectRootsDo

SpecRoots == InitRoots /\ [][NextRoots]_vars

\* ------------------------------------------------------------------------
\* Snapshot content: write_content and read_content (objects.cc)
\* ------------------------------------------------------------------------

\* ByteArray::SNAPSHOT_INTERNAL_SIZE_CUTOFF and String's (a quarter of a
\* page), scaled down.
SNAPSHOT_INTERNAL_SIZE_CUTOFF == 2
\* The longest content written.
MaxSnapshotLength == 3
\* String::SENTINEL: the internal length of a string with external content.
SENTINEL == 65535

\* The snapshot stream is the sequence of the values written, each with
\* the SnapshotWriter call that wrote it; the SnapshotReader call of the
\* same name returns them in order.
Token(op, v) == [op |-> op, v |-> v]

\* ByteArray::Bytes::length and String::Bytes::length of the objects below.
ByteArray_Bytes_length(x) == IF x.raw_length >= 0 THEN x.raw_length ELSE -1 - x.raw_length
String_Bytes_length(x) ==
  IF x.internal_length # SENTINEL THEN x.internal_length ELSE x.external_length

\* Array::write_content
Array_write_content(x) == [index \in 1 .. x.length |-> Token("object", x.elements[index])]

\* Array::read_content: _set_length(len), then at_put of every element.
Array_read_content(st, len) ==
  [tag |-> "ARRAY", length |-> len, elements |-> [index \in 1 .. len |-> st[index].v]]

\* ByteArray::write_content: [fatal, stream].
ByteArray_write_content(x) ==
  IF ByteArray_Bytes_length(x) > SNAPSHOT_INTERNAL_SIZE_CUTOFF
  THEN IF x.raw_length < 0 /\ x.external_tag # "RawByteTag"
       THEN [fatal |-> TRUE, stream |-> <<>>]
       ELSE [fatal |-> FALSE, stream |-> <<Token("external_list_uint8", x.bytes)>>]
  ELSE [fatal |-> FALSE,
        stream |-> [index \in 1 .. ByteArray_Bytes_length(x) |->
                      Token("cardinal", x.bytes[index])]]

\* ByteArray::read_content
ByteArray_read_content(st, len) ==
  IF len > SNAPSHOT_INTERNAL_SIZE_CUTOFF
  THEN [tag |-> "BYTE_ARRAY", raw_length |-> -1 - len,
        external_tag |-> "RawByteTag", bytes |-> st[1].v]
  ELSE [tag |-> "BYTE_ARRAY", raw_length |-> len, external_tag |-> "none",
        bytes |-> [index \in 1 .. len |-> st[index].v]]

\* Instance::write_content: the length, then every field.
Instance_write_content(x) ==
  <<Token("cardinal", Len(x.fields))>> \o
  [index \in 1 .. Len(x.fields) |-> Token("object", x.fields[index])]

\* Instance::read_content: fields holds the fields of the instance before
\* the call.
Instance_read_content(st, fields) ==
  LET len == st[1].v
  IN [tag |-> "INSTANCE",
      fields |-> [index \in 1 .. Len(fields) |->
                    IF index <= len THEN st[index + 1].v ELSE fields[index]]]

\* String::write_content: above the cutoff the bytes and the trailing NUL
\* as one external list, otherwise byte by byte.
String_write_content(x) ==
  IF String_Bytes_length(x) > SNAPSHOT_INTERNAL_SIZE_CUTOFF
  THEN <<Token("external_list_uint8", x.bytes \o <<0>>)>>
  ELSE [index \in 1 .. String_Bytes_length(x) |-> Token("byte", x.bytes[index])]

\* String::read_content.  raw_hash_code is what the hash code field of the
\* object holds before the call; the branch above the cutoff does not
\* write the field, the other one ends with _assign_hash_code().
String_read_content(st, len, raw_hash_code) ==
  IF len > SNAPSHOT_INTERNAL_SIZE_CUTOFF
  THEN [tag |-> "STRING", is_string |-> TRUE, internal_length |-> SENTINEL,
        external_length |-> len, bytes |-> SubSeq(st[1].v, 1, len),
        hash_code |-> raw_hash_code]
  ELSE String_assign_hash_code(
         [tag |-> "STRING", is_string |-> TRUE, internal_length |-> len,
          external_length |-> 0, bytes |-> [index \in 1 .. len |-> st[index].v],
          hash_code |-> raw_hash_code]).string

\* Double::write_content and Double::read_content
Double_write_content(x) == <<Token("double", x.value)>>
Double_read_content(st) == [tag |-> "DOUBLE", value |-> st[1].v]

\* The objects written: arrays and instances of smis and heap pointers,
\* byte arrays (internal, or external with either tag), strings (content
\* on the heap, or external above the cutoff; unhashed or hashed) and
\* doubles.
SnapshotSeqs(S) == UNION {[1 .. n -> S] : n \in 0 .. MaxSnapshotLength}
SnapshotWords == {Smi_from(1), TheString}
SnapshotBytes == {0, 200}
SnapshotChars == {97, 98}
SnapshotDoubles == {"0.0", "-0.0", "1.5", "NaN"}
\* The values an uninitialized hash code field may hold.
UninitializedHashCodes == {NO_HASH_CODE, 0, 7}

SnapshotObjects ==
  {[tag |-> "ARRAY", length |-> Len(e), elements |-> e] : e \in SnapshotSeqs(SnapshotWords)}
  \cup {[tag |-> "INSTANCE", fields |-> e] : e \in SnapshotSeqs(SnapshotWords)}
  \cup {[tag |-> "BYTE_ARRAY", raw_length |-> Len(b), external_tag |-> "none", bytes |-> b] :
          b \in SnapshotSeqs(SnapshotBytes)}
  \cup {[tag |-> "BYTE_ARRAY", raw_length |-> -1 - Len(b), external_tag |-> t, bytes |-> b] :
          b \in SnapshotSeqs(SnapshotBytes), t \in {"RawByteTag", "MappedFileTag"}}
  \cup {[tag |-> "STRING", is_string |-> TRUE, internal_length |-> Len(c),
          external_length |-> 0, bytes |-> c,
          hash_code |-> IF hashed THEN compute_hash_code_for(c, Len(c)) ELSE NO_HASH_CODE] :
          c \in SnapshotSeqs(SnapshotChars), hashed \in BOOLEAN}
  \cup {[tag |-> "STRING", is_string |-> TRUE, internal_length |-> SENTINEL,
          external_length |-> Len(c), bytes |-> c,
          hash_code |-> IF hashed THEN compute_hash_code_for(c, Len(c)) ELSE NO_HASH_CODE] :
          c \in {d \in SnapshotSeqs(SnapshotChars) : Len(d) > SNAPSHOT_INTERNAL_SIZE_CUTOFF},
          hashed \in BOOLEAN}
  \cup {[tag |-> "DOUBLE", value |-> v] : v \in SnapshotDoubles}

\* The length the snapshot writer records for an object and hands to
\* read_content.
SnapshotLength(x) ==
  IF x.tag = "ARRAY" THEN x.length
  ELSE IF x.tag = "BYTE_ARRAY" THEN ByteArray_Bytes_length(x)
  ELSE IF x.tag = "STRING" THEN String_Bytes_length(x)
  ELSE 0

InitSnapshot ==
  /\ IdleStack
  /\ IdleBytes
  /\ IdleStrings
  /\ IdleExternal
  /\ IdleFrames
  /\ IdleOverflow
  /\ IdleGc
  /\ IdleRoots
  /\ IdleAccess
  /\ IdleCompare
  /\ snap_object \in SnapshotObjects
  /\ snap_stream = <<>>
  /\ snap_copy = NoObject
  /\ snap_pc = "write"

\* x->write_content(writer)
WriteContent ==
  /\ snap_pc = "write"
  /\ \E w \in {IF snap_object.tag = "ARRAY"
               THEN [fatal |-> FALSE, stream |-> Array_write_content(snap_object)]
               ELSE IF snap_object.tag = "BYTE_ARRAY"
               THEN ByteArray_write_content(snap_object)
               ELSE IF snap_object.tag = "INSTANCE"
               THEN [fatal |-> FALSE, stream |-> Instance_write_content(snap_object)]
               ELSE IF snap_object.tag = "STRING"
               THEN [fatal |-> FALSE, stream |-> String_write_content(snap_object)]
               ELSE [fatal |-> FALSE, stream |-> Double_write_content(snap_object)]} :
       /\ snap_stream' = w.stream
       /\ snap_pc' = IF w.fatal THEN "fatal" ELSE "read"
  /\ UNCHANGED <<snap_object, snap_copy>>
  /\ UNCHANGED <<value_vars, stack_vars, bytes_vars, string_vars, ext_vars>>
  /\ UNCHANGED <<frame_vars, access_vars, compare_vars, roots_vars, gc_vars, overflow_vars>>

\* copy->read_content(reader, length) on a freshly allocated object of the
\* same class.  Nothing in read_content initializes the object first: an
\* instance's fields and a string's hash code field hold what the
\* allocation left there.
ReadContent ==
  /\ snap_pc = "read"
  /\ \E raw_hash_code \in UninitializedHashCodes :
       snap_copy' =
         IF snap_object.tag = "ARRAY"
         THEN Array_read_content(snap_stream, SnapshotLength(snap_object))
         ELSE IF snap_object.tag = "BYTE_ARRAY"
         THEN ByteArray_read_content(snap_stream, SnapshotLength(snap_object))
         ELSE IF snap_object.tag = "INSTANCE"
         THEN Instance_read_content(snap_stream,
                                    [index \in 1 .. Len(snap_object.fields) |-> 0])
         ELSE IF snap_object.tag = "STRING"
         THEN String_read_content(snap_stream, SnapshotLength(snap_object),
                                  raw_hash_code)
         ELSE Double_read_content(snap_stream)
  /\ snap_pc' = "done"
  /\ UNCHANGED <<snap_object, snap_stream>>
  /\ UNCHANGED <<value_vars, stack_vars, bytes_vars, string_vars, ext_vars>>
  /\ UNCHANGED <<frame_vars, access_vars, compare_vars, roots_vars, gc_vars, overflow_vars>>

NextSnapshot == WriteContent \/ ReadContent

SpecSnapshot == InitSnapshot /\ [][NextSnapshot]_vars

\* ------------------------------------------------------------------------
\* Number comparison and the result of a run (interpreter.h)
\* ------------------------------------------------------------------------

COMPARISON_FAILED == 0
COMPARE_TO_BIAS == -2
COMPARE_TO_MINUS_1 == 1
COMPARE_TO_ZERO == 2
COMPARE_TO_PLUS_1 == 3
COMPARE_TO_MASK == 3
COMPARE_TO_LESS_FOR_MIN == 4
STRICTLY_LESS == 8
LESS_EQUAL == 16
EQUAL == 32
GREATER_EQUAL == 64
STRICTLY_GREATER == 128

\* Interpreter::compare_numbers on small integers and on objects that are
\* not numbers: the compare_to code in the low two bits and a flag bit for
\* every relation that holds.  COMPARE_TO_LESS_FOR_MIN signals lhs <= rhs
\* (no operand here is a NaN).
compare_numbers(lhs, rhs) ==
  IF ~is_smi(lhs) \/ ~is_smi(rhs) THEN COMPARISON_FAILED
  ELSE IF Smi_value(lhs) < Smi_value(rhs)
  THEN BitOr(BitOr(COMPARE_TO_MINUS_1, COMPARE_TO_LESS_FOR_MIN),
             BitOr(STRICTLY_LESS, LESS_EQUAL))
  ELSE IF Smi_value(lhs) = Smi_value(rhs)
  THEN BitOr(BitOr(COMPARE_TO_ZERO, COMPARE_TO_LESS_FOR_MIN),
             BitOr(LESS_EQUAL, BitOr(EQUAL, GREATER_EQUAL)))
  ELSE BitOr(COMPARE_TO_PLUS_1, BitOr(GREATER_EQUAL, STRICTLY_GREATER))

\* Interpreter::Result(int64 value): a terminated run and its value.
Result_terminated(value) == [state |-> "TERMINATED", value |-> value]

\* The operands the entry code pushes: the small integers from
\* -CompareRange to CompareRange, and an object that is not a number.
CompareRange == 5
CompareOperands == {Smi_from(n) : n \in (-CompareRange) .. CompareRange} \cup {TheString}

InitCompare ==
  /\ IdleBytes
  /\ IdleStrings
  /\ IdleExternal
  /\ IdleFrames
  /\ IdleOverflow
  /\ IdleGc
  /\ IdleRoots
  /\ IdleSnapshot
  /\ IdleAccess
  /\ val = 0
  /\ val_in = 0
  /\ val_op = "none"
  /\ stack = <<>>
  /\ stack_at = 1
  /\ interp = NullRegisters
  /\ held = FALSE
  /\ fatal = FALSE
  /\ last_op = "none"
  /\ pre = NoSnapshot
  /\ visited = <<>>
  /\ \E lhs \in CompareOperands, rhs \in CompareOperands :
       entry_code = [lhs |-> lhs, rhs |-> rhs, pc |-> "push_lhs"]
  /\ operand_stack = <<>>
  /\ run_result = NoResult

\* The entry code pushes its first operand.
PushLhs ==
  /\ entry_code.pc = "push_lhs"
  /\ operand_stack' = <<entry_code.lhs>> \o operand_stack
  /\ entry_code' = [entry_code EXCEPT !.pc = "push_rhs"]
  /\ UNCHANGED <<run_result, value_vars, stack_vars, bytes_vars>>
  /\ UNCHANGED <<string_vars, ext_vars, frame_vars, access_vars, snapshot_vars, roots_vars, gc_vars, overflow_vars>>

\* The entry code pushes its second operand.
PushRhs ==
  /\ entry_code.pc = "push_rhs"
  /\ operand_stack' = <<entry_code.rhs>> \o operand_stack
  /\ entry_code' = [entry_code EXCEPT !.pc = "compare"]
  /\ UNCHANGED <<run_result, value_vars, stack_vars, bytes_vars>>
  /\ UNCHANGED <<string_vars, ext_vars, frame_vars, access_vars, snapshot_vars, roots_vars, gc_vars, overflow_vars>>

\* The entry code calls compare_numbers on the two topmost words (the
\* left operand is the lower one) and leaves the result as a small integer.
CallCompareNumbers ==
  /\ entry_code.pc = "compare"
  /\ operand_stack' =
       <<Smi_from(compare_numbers(operand_stack[2], operand_stack[1]))>>
  /\ entry_code' = [entry_code EXCEPT !.pc = "terminate"]
  /\ UNCHANGED <<run_result, value_vars, stack_vars, bytes_vars>>
  /\ UNCHANGED <<string_vars, ext_vars, frame_vars, access_vars, snapshot_vars, roots_vars, gc_vars, overflow_vars>>

\* The entry code terminates with the value on top of the stack: run()
\* returns Result(value).
Terminate ==
  /\ entry_code.pc = "terminate"
  /\ run_result' = Result_terminated(Smi_value(operand_stack[1]))
  /\ entry_code' = [entry_code EXCEPT !.pc = "done"]
  /\ UNCHANGED <<operand_stack, value_vars, stack_vars, bytes_vars>>
  /\ UNCHANGED <<string_vars, ext_vars, frame_vars, access_vars, snapshot_vars, roots_vars, gc_vars, overflow_vars>>

NextCompare ==
  \/ PushLhs
  \/ PushRhs
  \/ CallCompareNumbers
  \/ Terminate

SpecCompare == InitCompare /\ [][NextCompare]_vars

\* ------------------------------------------------------------------------
\* Claims
\* ------------------------------------------------------------------------

BoolToNat(b) == IF b THEN 1 ELSE 0

\* C1: for every machine word exactly one of is_smi, is_heap_object and
\* is_marked holds; the three predicates partition the set of all values.
C1_TagsPartition ==
  BoolToNat(is_smi(val)) + BoolToNat(is_heap_object(val)) + BoolToNat(is_marked(val)) = 1

\* A smi whose second-lowest bit is set: the case that separates the one-bit
\* smi mask from the two-bit heap/marked mask.
C1_Witness == val % 4 = 2 /\ is_smi(val) /\ val_op = "none"

\* C2: mark and unmark are mutual inverses: mark of a heap pointer is marked
\* and unmarks to the same pointer; unmark of a marked pointer is a heap
\* pointer and marks to the same marked pointer.
C2_MarkUnmarkInverse ==
  /\ val_op = "mark" =>
       /\ is_heap_object(val_in)
       /\ is_marked(val)
       /\ unmark(val) = val_in
  /\ val_op = "unmark" =>
       /\ is_marked(val_in)
       /\ is_heap_object(val)
       /\ mark(val) = val_in

\* A marked pointer above the lowest one has been unmarked to a heap pointer.
C2_Witness == val_op = "unmark" /\ is_heap_object(val) /\ val > 4

\* C3: for every slot address p of a stack with limit <= p <= base,
\* from_block(to_block(p)) = p, for the Stack's pair and for the
\* Interpreter's pair, and both decode a block to the same slot when the
\* interpreter's base is the stack's base address.
C3_BlockRoundTrip ==
  stack # <<>> =>
    \A i \in 0 .. stack.length :
      LET p == Stack_array_address(StackRaw, i)
          b == Stack_to_block(StackRaw, stack, p)
      IN /\ Stack_from_block(StackRaw, stack, b) = p
         /\ held =>
              /\ Interpreter_from_block(interp, Interpreter_to_block(interp, p)) = p
              /\ interp.base = Stack_stack_base_addr(StackRaw, stack) =>
                   Interpreter_from_block(interp, b) = Stack_from_block(StackRaw, stack, b)

\* The interpreter has pushed a reference to the block that is now the
\* second slot from the top, below the base, and decodes it to that slot.
C3_Witness ==
  /\ held /\ ~fatal
  /\ interp.sp + WORD_SIZE < interp.base
  /\ LET w == stack.slots[SlotIndex(interp.sp) + 1]
     IN /\ w = Interpreter_to_block(interp, interp.sp + WORD_SIZE)
        /\ Interpreter_from_block(interp, w) = interp.sp + WORD_SIZE

C5_TransferToRegisters ==
  /\ (last_op = "transfer_to" /\ pre.stack.top > 0
        /\ pre.stack.top <= pre.stack.length) =>
       /\ ~fatal
       /\ interp.limit = Stack_array_address(pre.raw, 0)
       /\ interp.base = Stack_array_address(pre.raw, pre.stack.length)
       /\ interp.sp = Stack_array_address(pre.raw, pre.stack.top)
       /\ interp.try_sp = Stack_array_address(pre.raw, pre.stack.try_top)
       /\ interp.in_stack_overflow = pre.stack.in_stack_overflow
       /\ stack.top = -1
  /\ held => stack.top = -1

\* The interpreter has run on the stack it holds: a try frame is linked and
\* the overflow flag is set.
C5_Witness ==
  /\ held /\ ~fatal /\ last_op = "run"
  /\ stack.top = -1
  /\ interp.try_sp < interp.base
  /\ interp.in_stack_overflow

\* C6: roots_do on a stack with 0 < top <= length calls the callback exactly
\* once for each used slot whose word is outside the bytecodes, and never
\* for a slot whose word is inside them nor for a slot below top.
C6_RootsDoSkipsBytecodes ==
  (last_op = "roots_do" /\ 0 < stack.top /\ stack.top <= stack.length) =>
    LET expected == {i \in stack.top .. stack.length - 1 :
                       ~InBytecodes(stack.slots[i + 1])}
    IN /\ \A k \in 1 .. Len(visited) : visited[k] \in expected
       /\ \A i \in expected :
            Cardinality({k \in 1 .. Len(visited) : visited[k] = i}) = 1

\* A walk over a stack that holds a frame marker, a return address and a
\* heap pointer in its used slots.
C6_Witness ==
  /\ last_op = "roots_do" /\ stack.top > 1
  /\ \E i, j, k \in stack.top .. stack.length - 1 :
       /\ stack.slots[i + 1] = frame_marker
       /\ stack.slots[j + 1] = return_bcp
       /\ stack.slots[k + 1] = TaskPointer
  /\ Len(visited) >= 1

\* The words that are block references into a stack of the given length.
IsBlock(w, length) ==
  is_smi(w) /\ Smi_value(w) - BLOCK_SALT \in 0 .. length

\* C7: copy_to(other, other_length) with other_length >= used leaves the
\* destination with length other_length, the same used count, top and
\* try_top increased by the displacement, the same task and flag and the same
\* word at every distance from base; every block reference on the stack
\* decodes on the destination to the slot at the same distance from base.
C7_CopyToPreserves ==
  (last_op = "copy_to" /\ pre.arg >= pre.stack.length - pre.stack.top) =>
    LET src == pre.stack
        used == src.length - src.top
        displacement == pre.arg - src.length
    IN /\ stack.length = pre.arg
       /\ stack.length - stack.top = used
       /\ stack.top = src.top + displacement
       /\ stack.try_top = src.try_top + displacement
       /\ stack.task = src.task
       /\ stack.in_stack_overflow = src.in_stack_overflow
       /\ \A d \in 1 .. used :
            /\ stack.slots[stack.length - d + 1] = src.slots[src.length - d + 1]
            /\ IsBlock(src.slots[src.length - d + 1], used) =>
                 PtrDiff(Stack_stack_base_addr(StackRaw, stack),
                         Stack_from_block(StackRaw, stack,
                                          stack.slots[stack.length - d + 1]))
                 = PtrDiff(Stack_stack_base_addr(pre.raw, src),
                           Stack_from_block(pre.raw, src,
                                            src.slots[src.length - d + 1]))

\* A stack with a block reference among at least two used slots has been
\* copied to a longer stack at another address.
C7_Witness ==
  /\ last_op = "copy_to"
  /\ stack.length > pre.stack.length
  /\ pre.stack.length - pre.stack.top >= 2
  /\ pre.raw # StackRaw
  /\ \E d \in 1 .. (stack.length - stack.top) :
       IsBlock(stack.slots[stack.length - d + 1], stack.length - stack.top)

\* The slice is a byte-array slice over the copy-on-write instance whose
\* bounds lie within the backing's content.
SliceOverCowWithValidBounds ==
  /\ slice.class_id = byte_array_slice_class_id
  /\ slice.slots[1] = CowInstance
  /\ is_smi(slice.slots[2])
  /\ is_smi(slice.slots[3])
  /\ 0 <= Smi_value(slice.slots[2])
  /\ Smi_value(slice.slots[2]) <= Smi_value(slice.slots[3])
  /\ Smi_value(slice.slots[3]) <= Bytes_length(allocated, cow.slots[1])

\* C8: whenever byte_content or mutable_byte_content returns false, the
\* out-parameters content and length hold what they held before the call.
C8_FalseLeavesOutputs ==
  (call.fn # "none" /\ ret = FALSE) =>
    (out.content = pre_out.content /\ out.length = pre_out.length)

\* C9: when the allocation that materializes the copy-on-write byte array
\* fails, mutable_byte_content returns true with content null and the error
\* set, called on the instance itself or on a byte-array slice with valid
\* bounds over it.
C9_OomReturnsTrueNull ==
  (/\ call.fn = "mutable_byte_content"
   /\ call.alloc_failed
   /\ (call.this = CowInstance
         \/ (call.this = SliceInstance /\ SliceOverCowWithValidBounds))) =>
    (ret = TRUE /\ out.content = NullContent /\ out.error # NoError)

\* C10: materialization is idempotent.  A successful mutable_byte_content
\* on the copy-on-write byte array, directly or through a slice, leaves its
\* flag true; and a call made when the flag is true allocates nothing,
\* leaves the instance alone and returns the backing it already had.
C10_MaterializationIdempotent ==
  [][ (call'.fn = "mutable_byte_content"
        /\ (call'.this = CowInstance
              \/ (call'.this = SliceInstance /\ SliceOverCowWithValidBounds))) =>
        /\ (ret' /\ out'.content # NullContent) =>
             (cow'.slots[2] = true_object /\ out'.content.obj = cow'.slots[1])
        /\ cow.slots[2] = true_object =>
             /\ allocated' = allocated
             /\ cow' = cow
             /\ ret'
             /\ out'.content.obj = cow.slots[1]
    ]_vars

\* A later call on the materialized instance: the first allocation is the
\* backing, and this call returned it without allocating.
C10_Witness ==
  /\ call.fn = "mutable_byte_content"
  /\ call.this = CowInstance
  /\ cow.slots = <<FirstAllocation, true_object>>
  /\ Len(allocated) = 1
  /\ ret
  /\ out.content = Bytes_address(FirstAllocation)
  /\ call.allocations = 0

\* C11: the first successful mutable_byte_content on the copy-on-write
\* byte array whose flag is false puts a freshly allocated byte array with
\* the length and bytes of the old backing in slot 0 and true in slot 1,
\* returns the fresh array's bytes, and leaves the old backing's bytes as
\* they were.
C11_FirstMaterialization ==
  [][ (/\ call'.fn = "mutable_byte_content"
       /\ call'.this = CowInstance
       /\ cow.slots[2] = false_object
       /\ ret'
       /\ out'.content # NullContent) =>
        LET old == cow.slots[1]
            new == cow'.slots[1]
        IN /\ new # old
           /\ ~IsAllocation(allocated, new)
           /\ IsAllocation(allocated', new)
           /\ Len(allocated') = Len(allocated) + 1
           /\ Bytes_length(allocated', new) = Bytes_length(allocated, old)
           /\ StoredBytes(allocated', new) = StoredBytes(allocated, old)
           /\ cow'.slots[2] = true_object
           /\ out'.content = Bytes_address(new)
           /\ out'.length = Bytes_length(allocated, old)
           /\ StoredBytes(allocated', old) = StoredBytes(allocated, old)
    ]_vars

\* The instance backed by the byte array allocated earlier has been
\* materialized by this call: the fresh array holds the earlier array's
\* bytes and the earlier array still holds them.
C11_Witness ==
  /\ call.fn = "mutable_byte_content"
  /\ call.this = CowInstance
  /\ call.allocations = 1
  /\ ret
  /\ cow.slots = <<AllocationAt(2), true_object>>
  /\ allocated = <<EarlierBytes, EarlierBytes>>
  /\ out.content = Bytes_address(AllocationAt(2))
  /\ out.length = Len(EarlierBytes)

\* The last call was on a string, or on a byte array that is internal or
\* external with RawByteTag.
CalledOnBytes == call.this \in {TheString, InternalBytes, ExternalBytes}
ReturnedReceiverBytes ==
  /\ ret
  /\ out.content = [obj |-> call.this, off |-> 0]
  /\ out.length = Len(StoredBytes(allocated, call.this))

\* C12 as stated: byte_content and mutable_byte_content both return true,
\* with content and length set to the receiver's bytes, for every string
\* and every internal or RawByteTag byte array.
C12_BothAcceptStringsAndByteArrays ==
  (call.fn # "none" /\ CalledOnBytes) => ReturnedReceiverBytes

\* C12 amended: byte_content accepts strings under either BlobKind and the
\* byte arrays under STRINGS_OR_BYTE_ARRAYS; mutable_byte_content accepts
\* the byte arrays only.  Every other such call returns false and leaves
\* content and length as they were.
C12_ExtractorsAccept ==
  (call.fn # "none" /\ CalledOnBytes) =>
    LET accepted ==
          IF call.fn = "byte_content"
          THEN call.this = TheString \/ call.kind = "STRINGS_OR_BYTE_ARRAYS"
          ELSE call.this # TheString
    IN IF accepted
       THEN ReturnedReceiverBytes
       ELSE /\ ~ret
            /\ out.content = pre_out.content
            /\ out.length = pre_out.length

\* mutable_byte_content has been called on a string and has returned
\* false.
C12_Witness ==
  /\ call.fn = "mutable_byte_content"
  /\ call.this = TheString
  /\ ~ret
  /\ out.content = pre_out.content

\* The string or byte array at the bottom of what the slice instance
\* wraps, and the window of it that the wrapped object stands for.
InnermostOf(p) == IF p = CowInstance THEN cow.slots[1] ELSE p
WrappedBase ==
  IF slice.slots[1] = InnerSlice
  THEN InnermostOf(nested.slots[1])
  ELSE InnermostOf(slice.slots[1])
WrappedOffset ==
  IF slice.slots[1] = InnerSlice THEN Smi_value(nested.slots[2]) ELSE 0
WrappedLength ==
  IF slice.slots[1] = InnerSlice
  THEN Smi_value(nested.slots[3]) - Smi_value(nested.slots[2])
  ELSE Len(StoredBytes(allocated, WrappedBase))

\* C13: an extraction from a slice succeeds only when both bounds are smis
\* with 0 <= from <= to <= length of what it wraps; the window returned is
\* the wrapped content plus from, of length to - from; and for a slice
\* over a slice the window lies inside the bytes of the innermost string or
\* byte array.
C13_SliceWindow ==
  (call.this = SliceInstance /\ ret /\ out.content # NullContent) =>
    LET from == slice.slots[2]
        to == slice.slots[3]
    IN /\ is_smi(from)
       /\ is_smi(to)
       /\ 0 <= Smi_value(from)
       /\ Smi_value(from) <= Smi_value(to)
       /\ Smi_value(to) <= WrappedLength
       /\ out.content = [obj |-> WrappedBase, off |-> WrappedOffset + Smi_value(from)]
       /\ out.length = Smi_value(to) - Smi_value(from)
       /\ out.content.off >= 0
       /\ out.length >= 0
       /\ out.content.off + out.length <= Len(StoredBytes(allocated, WrappedBase))

\* mutable_byte_content on the slice [0, 1] over the slice [1, 3] over the
\* copy-on-write instance has returned the second byte of the fresh
\* backing.
C13_Witness ==
  /\ call.fn = "mutable_byte_content"
  /\ call.this = SliceInstance
  /\ ret
  /\ slice.slots = <<InnerSlice, Smi_from(0), Smi_from(1)>>
  /\ nested.slots = <<CowInstance, Smi_from(1), Smi_from(3)>>
  /\ out.content = [obj |-> FirstAllocation, off |-> 1]
  /\ out.length = 1

\* The recurrence hash = n; hash = 31 * hash + (int8) b over all bytes,
\* in unbounded integers.
RECURSIVE HashRecurrence(_, _)
HashRecurrence(str, n) ==
  IF n = 0 THEN Len(str)
  ELSE 31 * HashRecurrence(str, n - 1) + (IF str[n] >= 128 THEN str[n] - 256 ELSE str[n])

\* The value in -32768 .. 32767 congruent to n modulo 65536.
WrapInt16(n) == ((n + 32768) % 65536) - 32768

\* The canonical hash of a byte sequence.
CanonicalHash(str) ==
  LET h == WrapInt16(HashRecurrence(str, Len(str)))
  IN IF h = -1 THEN 0 ELSE h

\* C14: compute_hash_code_for(bytes, n) is the int16 wrap-around of the
\* recurrence hash = n; hash = 31 * hash + (int8) b, with -1 replaced by
\* 0; it never returns -1.
C14_HashRecurrence ==
  str_call.fn = "compute_hash_code_for" =>
    /\ str_ret = CanonicalHash(str_call.arg)
    /\ str_ret # -1
    /\ str_ret \in -32768 .. 32767

\* The recurrence over the bytes E7 06 01 gives 65535, which wraps to the
\* sentinel -1, and the function has returned 0.
C14_Witness ==
  /\ str_call.fn = "compute_hash_code_for"
  /\ str_call.arg = <<231, 6, 1>>
  /\ HashRecurrence(str_call.arg, 3) = 65535
  /\ str_ret = 0

\* C15: hash_code(s) is the canonical hash of the bytes of s whether the
\* field held the sentinel or a hash code before; once hash_code has been
\* called the field is not the sentinel, and a further call returns the
\* same value and changes nothing.
C15_HashCodeCanonical ==
  /\ this_string.hash_code # -1 =>
       this_string.hash_code = CanonicalHash(this_string.bytes)
  /\ str_call.fn = "hash_code" =>
       /\ str_ret = CanonicalHash(this_string.bytes)
       /\ this_string.hash_code = str_ret
       /\ this_string.hash_code # -1
       /\ hash_code(this_string) = [ret |-> str_ret, string |-> this_string]

\* hash_code has been called on the unhashed string C5 A2, whose
\* recurrence gives the sentinel, and has stored and returned 0.
C15_Witness ==
  /\ str_call.fn = "hash_code"
  /\ str_call.raw_before = -1
  /\ this_string.bytes = <<197, 162>>
  /\ this_string.hash_code = 0
  /\ str_ret = 0

\* C16: equals(a, b) is true exactly when b is a string with the length
\* and bytes of a; the hash codes compared first never separate two
\* strings with the same bytes; equals is reflexive and symmetric on
\* strings.
C16_EqualsIsByteEquality ==
  /\ str_call.fn = "equals" =>
       (str_ret <=> (str_call.same
                      \/ (other_object.is_string
                            /\ Len(other_object.bytes) = Len(this_string.bytes)
                            /\ other_object.bytes = this_string.bytes)))
  /\ equals(this_string, this_string, TRUE).ret
  /\ other_object.is_string =>
       /\ equals(this_string, other_object, FALSE).ret
            = equals(other_object, this_string, FALSE).ret
       /\ equals(this_string, other_object, FALSE).ret
            <=> (other_object.bytes = this_string.bytes)

\* equals has been called on an unhashed string and a distinct string
\* with the same bytes, and has returned true.
C16_Witness ==
  /\ str_call.fn = "equals"
  /\ ~str_call.same
  /\ str_call.raw_before = -1
  /\ other_object.is_string
  /\ this_string.bytes = <<97, 0, 98>>
  /\ other_object.bytes = <<97, 0, 98>>
  /\ str_ret = TRUE

\* The order of two byte sequences: the unsigned order of the first bytes
\* that differ, and the order of the lengths when one is a prefix of the
\* other.
LexOrder(a, b) ==
  LET common == IF Len(a) <= Len(b) THEN Len(a) ELSE Len(b)
      differ == {i \in 1 .. common : a[i] # b[i]}
      first == CHOOSE i \in differ : \A j \in differ : i <= j
  IN IF differ # {} THEN (IF a[first] < b[first] THEN -1 ELSE 1)
     ELSE IF Len(a) < Len(b) THEN -1
     ELSE IF Len(a) > Len(b) THEN 1
     ELSE 0

\* C17: compare(a, b) is -1, 0 or +1 and is the lexicographic order of the
\* two byte sequences, bytes unsigned and a proper prefix first; it is
\* antisymmetric, it is 0 exactly when lengths and bytes are equal, and a
\* NUL byte is compared like any other byte.
C17_CompareIsLexicographic ==
  str_call.fn = "compare" =>
    LET other == IF str_call.same THEN this_string ELSE other_object
    IN /\ str_ret \in {-1, 0, 1}
       /\ str_ret = LexOrder(this_string.bytes, other.bytes)
       /\ String_compare(other, this_string, str_call.same) = -str_ret
       /\ (str_ret = 0) <=> (this_string.bytes = other.bytes)

\* compare has been called on "a\0b" and "a\0", which differ only after
\* the NUL byte, and has returned 1.
C17_Witness ==
  /\ str_call.fn = "compare"
  /\ ~str_call.same
  /\ this_string.bytes = <<97, 0, 98>>
  /\ other_object.bytes = <<97, 0>>
  /\ str_ret = 1

\* The positions of the neuters in the log.
NeuterPositions == {i \in 1 .. Len(ext_log) : ext_log[i].op = "neuter"}
FirstNeuter == CHOOSE i \in NeuterPositions : \A j \in NeuterPositions : i <= j

\* C18: neuter on an external RawByteTag byte array of length n at address
\* a returns a, unregisters n bytes from the process once, and leaves the
\* array external with address null and length 0; no later operation on
\* the array, a second neuter included, returns the buffer or unregisters
\* it again.
C18_NeuterTransfersOnce ==
  NeuterPositions # {} =>
    /\ ext_log[FirstNeuter].ret = ext_initial.address
    /\ ext_log[FirstNeuter].unregistered = ext_initial.length
    /\ ext_registered = ext_initial.registered - ext_initial.length
    /\ ByteArray_has_external_address(ext_array)
    /\ ext_array.external_address = 0
    /\ ByteArray_Bytes(ext_array) = [address |-> 0, length |-> 0]
    /\ \A i \in (FirstNeuter + 1) .. Len(ext_log) :
         /\ ext_log[i].ret = 0
         /\ ext_log[i].length = 0
         /\ ext_log[i].unregistered = 0

\* The array has been neutered twice: the first call returned the buffer
\* and unregistered its bytes, the second returned null and unregistered
\* nothing.
C18_Witness ==
  /\ Len(ext_log) >= 2
  /\ ext_log[1].op = "neuter"
  /\ ext_log[2].op = "neuter"
  /\ ext_initial.length > 0
  /\ ext_log[1].ret = ext_initial.address
  /\ ext_log[1].unregistered = ext_initial.length
  /\ ext_log[2].ret = 0
  /\ ext_log[2].unregistered = 0

\* The indexes above the stack pointer that hold a frame marker.
MarkerIndexes(s) ==
  {i \in 0 .. (s.length - s.top - 1) : Stack_at(s, i) = frame_marker}

\* The hand-built stack: exactly one frame marker, directly followed by a
\* word equal to a valid bytecode address.
OneMarkerStack ==
  \E i \in MarkerIndexes(stack) :
    /\ MarkerIndexes(stack) = {i}
    /\ i + 1 < stack.length - stack.top
    /\ InBytecodes(Stack_at(stack, i + 1))

\* The slots roots_do called back on.
VisitedSlots == {visited[k] : k \in 1 .. Len(visited)}

\* No callback of roots_do was for the word that follows a frame marker.
NoCallbackAfterMarker ==
  \A i \in MarkerIndexes(stack) : (stack.top + i + 1) \notin VisitedSlots

ScannedMarkers(s) == MarkerIndexes(s) \ {s.length - s.top - 1}

\* The n-th scanned frame marker, counted from the stack pointer upward.
NthMarker(s, n) ==
  CHOOSE i \in ScannedMarkers(s) :
    Cardinality({j \in ScannedMarkers(s) : j < i}) = n - 1

\* C26: with N frame markers in the scanned slots, each followed by a
\* non-null return address, frames_do skips the first two (the primitive
\* call and the throw site) and reports max(0, N-2) frames numbered 0, 1,
\* ... from the stack pointer upward; the k-th callback is made at marker
\* k+2 and carries the bci of the return address next to marker k+1; the
\* return value is the number of callbacks.
C26_FramesDoReports ==
  (frames.called /\ \A i \in ScannedMarkers(stack) : Stack_at(stack, i + 1) # 0) =>
    LET N == Cardinality(ScannedMarkers(stack))
        reported == IF N > 2 THEN N - 2 ELSE 0
    IN /\ frames.result = Len(frames.calls)
       /\ Len(frames.calls) = reported
       /\ \A k \in 1 .. reported :
            frames.calls[k] =
              <<k - 1,
                Stack_at(stack, NthMarker(stack, k + 1) + 1) - bytecodes_data>>

\* Three frame markers with return addresses of their own: one frame is
\* reported, with the bci of the second marker's return address.
C26_Witness ==
  /\ frames.called
  /\ Cardinality(ScannedMarkers(stack)) = 3
  /\ \A i \in ScannedMarkers(stack) : Stack_at(stack, i + 1) = return_bcp
  /\ frames.result = 1
  /\ frames.calls = <<<<0, return_bcp - bytecodes_data>>>>

\* C27: Smi::from accepts n exactly when -2^(w-2) <= n <= 2^(w-2)-1 and
\* rejects every other n; for an accepted n the result is a smi whose
\* value() is n and the tagging shift does not overflow the signed word; a
\* large integer is only given a payload outside that range.
C27_SmiRange ==
  LET InRange(n) ==
        n >= -Pow2(WORD_BIT_SIZE - 2) /\ n <= Pow2(WORD_BIT_SIZE - 2) - 1
  IN /\ val_op = "from" =>
          /\ InRange(val_in)
          /\ is_smi(val)
          /\ Smi_value(val) = val_in
          /\ ToSigned(val) = 2 * val_in
     /\ val_op = "from_assert_failed" => ~InRange(val_in)
     /\ val_op = "large_integer" => ~InRange(val_in)
     /\ val_op = "large_integer_assert_failed" => InRange(val_in)
     /\ Smi_is_valid(val_in) <=> InRange(val_in)

\* The smallest smi has been tagged: its word has the sign bit set and
\* value() shifts it back arithmetically.
C27_Witness ==
  /\ val_op = "from"
  /\ val_in = -Pow2(WORD_BIT_SIZE - 2)
  /\ val = SignBit
  /\ Smi_value(val) = val_in

\* C28: after every accessor call whose own assertion held the registers
\* satisfy limit <= sp <= base, and every slot the call read or wrote lies
\* in [limit, base).
C28_AccessorsStayInBounds ==
  /\ interp.limit <= interp.sp
  /\ interp.sp <= interp.base
  /\ \A i \in access.touched : InStack(i)

\* C29: the two transfers strictly alternate on a stack, starting with
\* transfer_to_interpreter on the fresh stack: transfer_to_interpreter on a
\* stack that is transferred out fails an assertion, and so does
\* transfer_from_interpreter on a stack that is not; a transfer on the
\* stack in the other condition fails none; and transfer_from_interpreter
\* right after transfer_to_interpreter restores top, try_top and
\* in_stack_overflow to what they were before the pair.
C29_TransfersAlternate ==
  [][/\ (~fatal /\ last_op' = "transfer_to") => (fatal' <=> stack.top = -1)
     /\ (~fatal /\ last_op' = "transfer_from" /\ stack.top # -1) => fatal'
     /\ (~fatal /\ last_op = "transfer_to" /\ last_op' = "transfer_from") =>
          /\ ~fatal'
          /\ stack'.top = pre.stack.top
          /\ stack'.try_top = pre.stack.try_top
          /\ stack'.in_stack_overflow = pre.stack.in_stack_overflow
     /\ (~fatal /\ last_op = "none") =>
          (stack.top = stack.length /\ stack.try_top = stack.length
             /\ ~stack.in_stack_overflow)
    ]_vars

\* A second transfer_to_interpreter was made on a stack the interpreter
\* holds and has pushed on: it failed its assertion.
C29_Witness ==
  /\ last_op = "transfer_to" /\ fatal /\ held
  /\ stack.top = -1
  /\ interp.sp < interp.base

\* The heap and the caller's variables as mutable_byte_content is given
\* them, before (HeapNow) and after (HeapNext) a step.
HeapNow ==
  [cow |-> cow, slice |-> slice, nested |-> nested, allocated |-> allocated,
   content |-> pre_out.content, length |-> pre_out.length,
   error |-> pre_out.error, alloc_failed |-> FALSE, ret |-> FALSE]
HeapNext ==
  [cow |-> cow', slice |-> slice', nested |-> nested', allocated |-> allocated',
   content |-> pre_out'.content, length |-> pre_out'.length,
   error |-> pre_out'.error, alloc_failed |-> FALSE, ret |-> FALSE]

ComparedThreeAndFour ==
  /\ entry_code.pc = "done"
  /\ entry_code.lhs = Smi_from(3)
  /\ entry_code.rhs = Smi_from(4)

SameContent(x, y) ==
  /\ y.tag = x.tag
  /\ x.tag = "ARRAY" => (y.length = x.length /\ y.elements = x.elements)
  /\ x.tag = "INSTANCE" => y.fields = x.fields
  /\ x.tag = "BYTE_ARRAY" =>
       (ByteArray_Bytes_length(y) = ByteArray_Bytes_length(x) /\ y.bytes = x.bytes)
  /\ x.tag = "STRING" =>
       (String_Bytes_length(y) = String_Bytes_length(x) /\ y.bytes = x.bytes)
  /\ x.tag = "DOUBLE" => y.value = x.value

\* C22: read_content applied to the stream write_content produced, with
\* the length the writer saw, yields an object with the same length and
\* the same elements, bytes or value, on both sides of the cutoff, and a
\* string read back has the hash_code() of the original.
C22_SnapshotRoundTrip ==
  snap_pc = "done" =>
    /\ SameContent(snap_object, snap_copy)
    /\ snap_object.tag = "STRING" =>
         hash_code(snap_copy).ret = hash_code(snap_object).ret

\* The byte offsets of the slots of an object that contain a value: the
\* length slots of an array, the (size - header) / word slots of an
\* instance or task, the used slots of a stack outside the bytecodes
\* together with its task field, and none for the other kinds.
SlotsWithValue(x) ==
  IF x.class_tag = "ARRAY_TAG"
  THEN {o \in 0 .. Array_offset_from(x.length) - 1 :
          o >= Array_HEADER_SIZE /\ o % WORD_SIZE = 0}
  ELSE IF x.class_tag \in {"TASK_TAG", "INSTANCE_TAG"}
  THEN {o \in 0 .. x.instance_size - 1 :
          o >= Instance_HEADER_SIZE /\ o % WORD_SIZE = 0}
  ELSE IF x.class_tag = "STACK_TAG"
  THEN {Stack_TASK_OFFSET} \cup
       {Stack_array_offset_from(k) : k \in
          {j \in x.stack.top .. x.stack.length - 1 : ~InBytecodes(x.stack.slots[j + 1])}}
  ELSE {}

\* C23: HeapObject::roots_do calls back with the address of every slot of
\* the object that contains a value, for every object kind: every slot of
\* an array, instance or task, every used non-bytecode slot of a stack
\* together with the stack's task back-reference, and nothing for the
\* other kinds.
C23_RootsDoVisitsEverySlot ==
  root_pc = "done" =>
    {root_calls[i] : i \in 1 .. Len(root_calls)} = SlotsWithValue(root_holder)

\* C24: a scavenge that starts inside run() stores the interpreter's stack
\* into the Stack object first and reloads it afterwards: no roots_do,
\* frames_do or copy_to runs on a Stack whose top is the transferred-out
\* sentinel -1.
C24_NoWalkOnTransferredOutStack ==
  /\ gc_walk.op # "none" => gc_walk.top # -1
  /\ gc_pc = "stored" => (~held /\ stack.top # -1)
  /\ (gc_pc = "mutator" /\ held /\ ~fatal) => stack.top = -1

\* A scavenge that started inside run() has walked the stored stack and
\* the interpreter has reloaded it.
C24_Witness ==
  /\ gc_walk.op = "roots_do"
  /\ gc_walk.top > 0
  /\ gc_pc = "mutator"
  /\ held
  /\ ~fatal
  /\ stack.top = -1

\* One step of a run with respect to the stack overflow flag.
OverflowStep ==
  /\ (~CurrentInStackOverflow /\ CurrentInStackOverflow') =>
       /\ held /\ held'
       /\ interp.sp <= watermark
       /\ stack.length >= Stack_max_length
       /\ overflow_state' = "OVERFLOW_EXCEPTION"
       /\ overflows' = overflows + 1
       /\ watermark' = interp'.limit
       /\ watermark' = watermark - OVERFLOW_HEADROOM * WORD_SIZE
  /\ (CurrentInStackOverflow /\ ~CurrentInStackOverflow') =>
       /\ last_op' = "reset_stack_limit"
       /\ held'
       /\ watermark' = interp'.limit + OVERFLOW_HEADROOM * WORD_SIZE
  /\ (held /\ held' /\ stack_at' = stack_at /\ interp'.sp < interp.sp) =>
       (interp.sp > watermark /\ interp'.sp >= interp'.limit)
  /\ held' => watermark' = watermark_for(interp')

\* C25: a stack pointer at the limit of a stack that cannot grow enters
\* OVERFLOW_EXCEPTION, which sets in_stack_overflow and opens the
\* OVERFLOW_HEADROOM slots; the flag stays set across store_stack,
\* load_stack and copy_to until reset_stack_limit clears it and restores
\* the limit, and a later overflow is handled the same way.
C25_OverflowFlagUntilReset == [][OverflowStep]_vars

\* A second stack overflow exception is being handled, after the first
\* one was reset, with the stack pointer inside the headroom.
C25_Witness ==
  /\ overflows = 2
  /\ held
  /\ interp.in_stack_overflow
  /\ interp.sp < interp.limit + OVERFLOW_HEADROOM * WORD_SIZE
  /\ last_op = "transfer_to"

====
